---- MODULE Spec2Model ----
(***************************************************************************)
(* Model of the rule-based communication-skills scorer of the Study Buddy  *)
(* backend (backend/services/transcription_service.py).                    *)
(*                                                                         *)
(* Python str values are TLA+ strings; a character is a string of length 1.*)
(* Python floats that are quotients of small integers are kept as exact    *)
(* fractions [n |-> numerator, d |-> denominator], d > 0.                  *)
(***************************************************************************)
EXTENDS Integers, Sequences, FiniteSets, TLC

VARIABLES call, analysis, result, history_file, saved_entries

vars == <<call, analysis, result, history_file, saved_entries>>

\* data/communication_history.json and the record of what was saved into it
store == <<history_file, saved_entries>>

(***************************************************************************)
(* Integers and fractions                                                  *)
(***************************************************************************)
Min(a, b) == IF a <= b THEN a ELSE b

Max(a, b) == IF a >= b THEN a ELSE b

SetMin(S) == CHOOSE x \in S : \A y \in S : x <= y

Frac(n, d) == [n |-> n, d |-> d]

\* a <= b, a < b on fractions with positive denominators
FracLe(a, b) == a.n * b.d <= b.n * a.d

FracLt(a, b) == a.n * b.d < b.n * a.d

FracMin(a, b) == IF FracLe(a, b) THEN a ELSE b

FracAdd(a, b) == Frac(a.n * b.d + b.n * a.d, a.d * b.d)

FracSub(a, b) == Frac(a.n * b.d - b.n * a.d, a.d * b.d)

FracEq(a, b) == a.n * b.d = b.n * a.d

Zero == Frac(0, 1)

One == Frac(1, 1)

\* int(f * k) for a fraction f >= 0: truncation toward zero
IntOfScaled(f, k) == (f.n * k) \div f.d

(***************************************************************************)
(* Python str operations                                                   *)
(***************************************************************************)
Ch(s, i) == SubSeq(s, i, i)

UpperCase == "ABCDEFGHIJKLMNOPQRSTUVWXYZ"

LowerCase == "abcdefghijklmnopqrstuvwxyz"

LowerCh(c) ==
    IF \E i \in 1..Len(UpperCase) : Ch(UpperCase, i) = c
    THEN Ch(LowerCase, CHOOSE i \in 1..Len(UpperCase) : Ch(UpperCase, i) = c)
    ELSE c

\* str.lower()
RECURSIVE Lower(_)
Lower(s) ==
    IF Len(s) = 0 THEN s
    ELSE IF Len(s) = 1 THEN LowerCh(s)
    ELSE LET h == Len(s) \div 2
         IN  Lower(SubSeq(s, 1, h)) \o Lower(SubSeq(s, h + 1, Len(s)))

Whitespace == {" ", "\t", "\n", "\r", "\f"}

IsSpace(c) == c \in Whitespace

\* str.strip(): the text between the first and the last non-whitespace character
Strip(s) ==
    LET keep == {i \in 1..Len(s) : ~IsSpace(Ch(s, i))}
    IN  IF keep = {} THEN ""
        ELSE SubSeq(s, SetMin(keep), CHOOSE i \in keep : \A j \in keep : j <= i)

\* str.strip(chars): the same with an explicit set of characters to remove
StripChars(s, chars) ==
    LET keep == {i \in 1..Len(s) : Ch(s, i) \notin chars}
    IN  IF keep = {} THEN ""
        ELSE SubSeq(s, SetMin(keep), CHOOSE i \in keep : \A j \in keep : j <= i)

\* The maximal runs of characters of s that satisfy Keep, left to right, as
\* <<first, last>> index pairs.
RunStarts(s, InRun(_)) ==
    {i \in 1..Len(s) : InRun(Ch(s, i)) /\ (i = 1 \/ ~InRun(Ch(s, i - 1)))}

RunEnd(s, InRun(_), i) ==
    SetMin({j \in i..Len(s) : j = Len(s) \/ ~InRun(Ch(s, j + 1))})

\* The elements of a finite set of integers in increasing order
RECURSIVE SortedSeq(_)
SortedSeq(S) ==
    IF S = {} THEN <<>>
    ELSE LET m == SetMin(S) IN <<m>> \o SortedSeq(S \ {m})

\* str.split(): the maximal runs of non-whitespace characters
IsWordChar(c) == ~IsSpace(c)

Split(s) ==
    LET starts == SortedSeq(RunStarts(s, IsWordChar))
    IN  [k \in 1..Len(starts) |-> SubSeq(s, starts[k], RunEnd(s, IsWordChar, starts[k]))]

\* re.split(r'[.!?]+', s): the text before, between and after the maximal runs
\* of terminators; empty pieces are kept, so there is one piece more than runs.
Terminators == {".", "!", "?"}

IsTerminator(c) == c \in Terminators

ReSplit(s) ==
    LET starts == SortedSeq(RunStarts(s, IsTerminator))
        n      == Len(starts)
        from(k) == IF k = 1 THEN 1 ELSE RunEnd(s, IsTerminator, starts[k - 1]) + 1
        to(k)   == IF k = n + 1 THEN Len(s) ELSE starts[k] - 1
    IN  [k \in 1..(n + 1) |-> SubSeq(s, from(k), to(k))]

\* sub in s
Contains(s, sub) ==
    \E i \in 1..(Len(s) - Len(sub) + 1) : SubSeq(s, i, i + Len(sub) - 1) = sub

\* s.count(sub): non-overlapping occurrences, scanning from the left
RECURSIVE CountFrom(_, _, _)
CountFrom(s, sub, i) ==
    LET hits == {j \in i..(Len(s) - Len(sub) + 1) : SubSeq(s, j, j + Len(sub) - 1) = sub}
    IN  IF hits = {} THEN 0
        ELSE 1 + CountFrom(s, sub, SetMin(hits) + Len(sub))

Count(s, sub) == CountFrom(s, sub, 1)

\* s.startswith(prefix)
StartsWith(s, prefix) ==
    Len(prefix) <= Len(s) /\ SubSeq(s, 1, Len(prefix)) = prefix

\* sep.join(parts)
RECURSIVE Join(_, _)
Join(parts, sep) ==
    IF Len(parts) = 0 THEN ""
    ELSE IF Len(parts) = 1 THEN parts[1]
    ELSE parts[1] \o sep \o Join(Tail(parts), sep)

\* sum(seq) for a sequence of integers
RECURSIVE SumInts(_)
SumInts(seq) ==
    IF Len(seq) = 0 THEN 0 ELSE seq[1] + SumInts(Tail(seq))

(***************************************************************************)
(* Lexical feature extraction: _analyze_speech_patterns                    *)
(***************************************************************************)
filler_words ==
    <<"um", "uh", "like", "you know", "actually", "basically", "literally",
      "sort of", "kind of">>

formal_words == {"therefore", "however", "moreover", "furthermore", "consequently"}

\* sum(text.count(term) for term in terms)
CountAll(text, terms) ==
    SumInts([k \in 1..Len(terms) |-> Count(text, terms[k])])

\* The weight for every occurrence of every term
BonusPerOccurrence(text, terms, weight) == weight * CountAll(text, terms)

\* sum(weight for term in terms if term in text)
BonusFor(text, terms, weight) ==
    SumInts([k \in 1..Len(terms) |-> IF Contains(text, terms[k]) THEN weight ELSE 0])

\* [s.strip() for s in re.split(r'[.!?]+', transcription) if s.strip()]
Sentences(transcription) ==
    LET parts == ReSplit(transcription)
        kept  == SortedSeq({k \in 1..Len(parts) : Strip(parts[k]) # ""})
    IN  [k \in 1..Len(kept) |-> Strip(parts[kept[k]])]

\* The quality rating is a sum of four binary64 values divided by 4.  Where
\* that double lies just below a multiple of 1/10 that the exact sum reaches,
\* int(quality_rating * 10) is one less than the exact value.  These are all
\* such cases with at most 8 sentences, keyed by
\* <<min(filler_word_count, 5), complexity_score, flow_score, min(word_count, 50)>>.
QualityShortfall ==
    { <<3, Frac(0, 1), Frac(0, 1), 5>>,
      <<3, Frac(0, 1), Frac(1, 5), 35>>, <<4, Frac(0, 1), Frac(1, 5), 0>>,
      <<5, Frac(0, 1), Frac(1, 5), 5>>,
      <<0, Frac(0, 1), Frac(2, 5), 10>>,
      <<1, Frac(0, 1), Frac(1, 2), 10>>,
      <<2, Frac(0, 1), Frac(3, 5), 10>>, <<3, Frac(0, 1), Frac(3, 5), 15>>,
      <<3, Frac(0, 1), Frac(3, 5), 35>>,
      <<4, Frac(0, 1), Frac(4, 5), 10>>,
      <<1, Frac(1, 8), Frac(3, 8), 10>>,
      <<1, Frac(1, 6), Frac(1, 3), 10>>,
      <<0, Frac(1, 5), Frac(1, 5), 10>>, <<3, Frac(1, 5), Frac(1, 5), 25>>,
      <<5, Frac(1, 5), Frac(1, 5), 35>>,
      <<2, Frac(1, 5), Frac(2, 5), 10>>, <<3, Frac(1, 5), Frac(2, 5), 15>>,
      <<3, Frac(1, 5), Frac(2, 5), 35>>,
      <<0, Frac(1, 5), Frac(3, 5), 10>>, <<4, Frac(1, 5), Frac(3, 5), 10>>,
      <<5, Frac(1, 5), Frac(3, 5), 15>>, <<5, Frac(1, 5), Frac(3, 5), 35>>,
      <<1, Frac(1, 4), Frac(1, 4), 10>>,
      <<0, Frac(2, 5), Frac(2, 5), 10>>, <<4, Frac(2, 5), Frac(2, 5), 10>>,
      <<1, Frac(2, 5), Frac(1, 1), 45>>,
      <<4, Frac(3, 7), Frac(4, 7), 0>>,
      <<2, Frac(1, 2), Frac(1, 1), 45>>,
      <<4, Frac(3, 5), Frac(3, 5), 10>>,
      <<1, Frac(3, 5), Frac(4, 5), 45>>, <<3, Frac(3, 5), Frac(4, 5), 15>>,
      <<3, Frac(3, 5), Frac(1, 1), 45>>,
      <<2, Frac(5, 8), Frac(7, 8), 45>>,
      <<2, Frac(3, 4), Frac(3, 4), 45>>,
      <<3, Frac(4, 5), Frac(4, 5), 45>>,
      <<0, Frac(4, 5), Frac(1, 1), 20>>, <<5, Frac(4, 5), Frac(1, 1), 45>>,
      <<1, Frac(1, 1), Frac(1, 1), 15>>, <<2, Frac(1, 1), Frac(1, 1), 20>> }

\* Whether the double quality_rating lies below the exact fraction
QualityBelow(filler_word_count, complexity_score, flow_score, word_count) ==
    \E e \in QualityShortfall :
        /\ e[1] = Min(filler_word_count, 5)
        /\ FracEq(e[2], complexity_score)
        /\ FracEq(e[3], flow_score)
        /\ e[4] = Min(word_count, 50)

\* sum(quality_factors) / len(quality_factors)
QualityRating(filler_word_count, complexity_score, flow_score, word_count) ==
    LET f1 == FracSub(One, FracMin(Frac(filler_word_count, 10), Frac(1, 2)))
        f2 == FracMin(complexity_score, One)
        f3 == flow_score
        f4 == FracMin(Frac(word_count, 50), One)
        total == FracAdd(FracAdd(f1, f2), FracAdd(f3, f4))
    IN  Frac(total.n, total.d * 4)

\* complex_sentences / len(sentences) if sentences else 0, where a complex
\* sentence has more than 15 words
ComplexityScore(sentences) ==
    IF Len(sentences) > 0
    THEN Frac(Cardinality({k \in 1..Len(sentences) : Len(Split(sentences[k])) > 15}),
              Len(sentences))
    ELSE Zero

\* 1 - (short_sentences / len(sentences)) if sentences else 0, where a short
\* sentence has fewer than 5 words
FlowScore(sentences) ==
    IF Len(sentences) > 0
    THEN Frac(Len(sentences)
                  - Cardinality({k \in 1..Len(sentences) : Len(Split(sentences[k])) < 5}),
              Len(sentences))
    ELSE Zero

\* The dict _analyze_speech_patterns returns, from the values it has computed
SpeechAnalysis(transcription, words, word_count, filler_word_count, complexity_score, flow_score) ==
    [ filler_word_count |-> filler_word_count,
      complexity_score |-> complexity_score,
      flow_score |-> flow_score,
      quality_rating |->
          QualityRating(filler_word_count, complexity_score, flow_score, word_count),
      quality_below |->
          QualityBelow(filler_word_count, complexity_score, flow_score, word_count),
      has_questions |-> Contains(transcription, "?"),
      has_exclamations |-> Contains(transcription, "!"),
      formal_language_count |->
          Cardinality({k \in 1..Len(words) : Lower(words[k]) \in formal_words}) ]

SpeechPatternsOf(transcription, words, word_count, sentences) ==
    SpeechAnalysis(transcription, words, word_count,
                   CountAll(Lower(transcription), filler_words),
                   ComplexityScore(sentences), FlowScore(sentences))

_analyze_speech_patterns(transcription, words, word_count) ==
    SpeechPatternsOf(transcription, words, word_count, Sentences(transcription))

(***************************************************************************)
(* Score calculators                                                       *)
(***************************************************************************)
clarity_indicators ==
    <<"clear", "understand", "explain", "simple", "direct", "obvious", "apparent">>

\* The sentence-structure bonus without its second tier
SentenceBonusOneTier(avg_words_per_sentence) ==
    IF FracLe(Frac(8, 1), avg_words_per_sentence) /\ FracLe(avg_words_per_sentence, Frac(18, 1))
    THEN 12
    ELSE 0

\* The sentence-structure bonus of the clarity score
SentenceBonus(avg_words_per_sentence) ==
    IF FracLe(Frac(8, 1), avg_words_per_sentence) /\ FracLe(avg_words_per_sentence, Frac(18, 1))
    THEN 12
    ELSE IF FracLe(Frac(5, 1), avg_words_per_sentence)
            /\ FracLe(avg_words_per_sentence, Frac(25, 1))
    THEN 6
    ELSE 0

\* The quality bonus rounded to the nearest integer instead of cut off
QualityBonusRounded(speech_analysis) ==
    (speech_analysis.quality_rating.n * 20 + speech_analysis.quality_rating.d)
        \div (2 * speech_analysis.quality_rating.d)

\* int(speech_analysis["quality_rating"] * 10)
QualityBonus(speech_analysis) ==
    IntOfScaled(speech_analysis.quality_rating, 10)
        - (IF speech_analysis.quality_below THEN 1 ELSE 0)

\* The clarity score without its upper clamp
ClarityNoUpperClamp(transcription, word_count, avg_words_per_sentence, speech_analysis) ==
    60 + SentenceBonus(avg_words_per_sentence)
       + (IF word_count >= 25 THEN 10 ELSE IF word_count >= 15 THEN 5 ELSE 0)
       + BonusFor(Lower(transcription), clarity_indicators, 4)
       - Min(15, speech_analysis.filler_word_count * 2)
       + QualityBonus(speech_analysis)

\* The clarity score with the filler penalty subtracted a second time
ClarityDoublePenalty(transcription, word_count, avg_words_per_sentence, speech_analysis) ==
    Min(100, ClarityNoUpperClamp(transcription, word_count, avg_words_per_sentence,
                                 speech_analysis)
                 - Min(15, speech_analysis.filler_word_count * 2))

_calculate_enhanced_clarity_score(transcription, word_count, avg_words_per_sentence, speech_analysis) ==
    LET base_score ==
            60 + SentenceBonus(avg_words_per_sentence)
               + (IF word_count >= 25 THEN 10 ELSE IF word_count >= 15 THEN 5 ELSE 0)
        clarity_bonus == BonusFor(Lower(transcription), clarity_indicators, 4)
        filler_penalty == Min(15, speech_analysis.filler_word_count * 2)
        quality_bonus == QualityBonus(speech_analysis)
    IN  Min(100, base_score + clarity_bonus - filler_penalty + quality_bonus)

strong_confidence ==
    <<"believe", "confident", "excited", "passionate", "sure", "certain",
      "definitely", "absolutely">>

moderate_confidence == <<"think", "feel", "hope", "suggest", "recommend", "consider">>

leadership_words == <<"lead", "guide", "direct", "manage", "organize", "plan", "decide">>

uncertainty_words == <<"maybe", "perhaps", "possibly", "might", "could", "should", "would">>

ConfidenceTotal(transcription, speech_analysis) ==
    LET text == Lower(transcription)
    IN  55 + BonusFor(text, strong_confidence, 6)
           + BonusFor(text, moderate_confidence, 3)
           + BonusFor(text, leadership_words, 5)
           - BonusFor(text, uncertainty_words, 3)
           - Min(20, speech_analysis.filler_word_count * 3)
           + Min(10, speech_analysis.formal_language_count * 3)

\* The confidence score with the filler penalty capped at 10 instead of 20
ConfidenceLowPenaltyCap(transcription, speech_analysis) ==
    LET text == Lower(transcription)
        total ==
            55 + BonusFor(text, strong_confidence, 6)
               + BonusFor(text, moderate_confidence, 3)
               + BonusFor(text, leadership_words, 5)
               - BonusFor(text, uncertainty_words, 3)
               - Min(10, speech_analysis.filler_word_count * 3)
               + Min(10, speech_analysis.formal_language_count * 3)
    IN  Min(100, Max(30, total))

_calculate_enhanced_confidence_score(transcription, speech_analysis) ==
    Min(100, Max(30, ConfidenceTotal(transcription, speech_analysis)))

articulation_words ==
    <<"articulate", "express", "communicate", "convey", "describe", "explain",
      "elaborate", "detail">>

\* int(flow_score * 10): the double 1 - 4/5 lies below 1/5, 1 - 9/10 below 1/10
FlowBonus(flow_score) ==
    IntOfScaled(flow_score, 10)
        - (IF FracEq(flow_score, Frac(1, 5)) \/ FracEq(flow_score, Frac(1, 10)) THEN 1 ELSE 0)

\* The articulation score with the word-count bonuses added up: every
\* threshold that is met contributes
ArticulationCumulative(transcription, word_count, vocabulary_diversity, speech_analysis) ==
    Min(100, Max(35,
        65 + (IF word_count >= 35 THEN 12 ELSE 0) + (IF word_count >= 25 THEN 8 ELSE 0)
           + (IF word_count >= 15 THEN 4 ELSE 0)
           + (IF FracLt(Frac(4, 5), vocabulary_diversity) THEN 15
              ELSE IF FracLt(Frac(3, 5), vocabulary_diversity) THEN 10
              ELSE IF FracLt(Frac(2, 5), vocabulary_diversity) THEN 5 ELSE 0)
           - (IF FracLt(speech_analysis.flow_score, Frac(3, 10)) THEN 10 ELSE 0)
           + BonusFor(Lower(transcription), articulation_words, 4)
           + IntOfScaled(speech_analysis.complexity_score, 15)
           + FlowBonus(speech_analysis.flow_score)
           + (IF speech_analysis.has_questions THEN 5 ELSE 0)
           + (IF speech_analysis.has_exclamations THEN 3 ELSE 0)))

_calculate_enhanced_articulation_score(transcription, word_count, vocabulary_diversity, speech_analysis) ==
    LET count_bonus ==
            IF word_count >= 35 THEN 12
            ELSE IF word_count >= 25 THEN 8
            ELSE IF word_count >= 15 THEN 4 ELSE 0
        diversity_bonus ==
            IF FracLt(Frac(4, 5), vocabulary_diversity) THEN 15
            ELSE IF FracLt(Frac(3, 5), vocabulary_diversity) THEN 10
            ELSE IF FracLt(Frac(2, 5), vocabulary_diversity) THEN 5 ELSE 0
        flow_penalty == IF FracLt(speech_analysis.flow_score, Frac(3, 10)) THEN 10 ELSE 0
        base_score == 65 + count_bonus + diversity_bonus - flow_penalty
        articulation_bonus == BonusFor(Lower(transcription), articulation_words, 4)
        complexity_bonus == IntOfScaled(speech_analysis.complexity_score, 15)
        flow_bonus == FlowBonus(speech_analysis.flow_score)
        engagement_bonus ==
            (IF speech_analysis.has_questions THEN 5 ELSE 0)
                + (IF speech_analysis.has_exclamations THEN 3 ELSE 0)
        total_score ==
            base_score + articulation_bonus + complexity_bonus + flow_bonus + engagement_bonus
    IN  Min(100, Max(35, total_score))

(***************************************************************************)
(* Variation injector and fallback generator.  random.randint(a, b) may    *)
(* return any integer of a..b, so an operation that draws random numbers   *)
(* is modelled by the set of results it can return.                        *)
(***************************************************************************)
randint(a, b) == a..b

\* The variation with a range that is not capped at 15
VariationUncapped(base_score, word_count) ==
    LET variation_range == Max(5, word_count \div 10)
    IN  { Min(100, Max(40, base_score + variation)) :
              variation \in randint(-variation_range, variation_range) }

\* The variation without the lower clamp of the result
VariationNoFloor(base_score, word_count) ==
    LET variation_range == Min(15, Max(5, word_count \div 10))
    IN  { Min(100, base_score + variation) :
              variation \in randint(-variation_range, variation_range) }

_add_natural_variation(base_score, word_count) ==
    LET variation_range == Min(15, Max(5, word_count \div 10))
    IN  { Min(100, Max(40, base_score + variation)) :
              variation \in randint(-variation_range, variation_range) }

NoDetail ==
    [ word_count |-> 0, sentence_count |-> 0, avg_words_per_sentence |-> Zero,
      vocabulary_diversity |-> Zero, speech_quality |-> Frac(1, 2), filler_words |-> 0,
      complexity_score |-> Zero, transcription_length |-> 0 ]

FallbackSuggestions ==
    "Try speaking more clearly and with better pronunciation. Practice regularly to improve your communication skills."

\* One entry of scores: a base score with its variation, clamped
FallbackScores ==
    { Min(100, Max(40, score + variation)) :
          score \in randint(65, 85), variation \in randint(-10, 10) }

\* The feedback with the clarity and confidence values exchanged
FallbackFeedbackSwapped(reason, clarity, confidence, articulation) ==
    reason \o ". Your speech shows " \o ToString(confidence) \o "% clarity, "
           \o ToString(clarity) \o "% confidence, and "
           \o ToString(articulation) \o "% articulation."

FallbackFeedback(reason, clarity, confidence, articulation) ==
    reason \o ". Your speech shows " \o ToString(clarity) \o "% clarity, "
           \o ToString(confidence) \o "% confidence, and "
           \o ToString(articulation) \o "% articulation."

_generate_random_evaluation(reason) ==
    { [ clarity |-> clarity,
        confidence |-> confidence,
        articulation |-> articulation,
        feedback |-> FallbackFeedback(reason, clarity, confidence, articulation),
        suggestions |-> FallbackSuggestions,
        detailed_analysis |-> NoDetail ] :
          clarity \in FallbackScores, confidence \in FallbackScores,
          articulation \in FallbackScores }

(***************************************************************************)
(* Feedback and suggestion composers                                       *)
(***************************************************************************)
\* overall_score = (clarity + confidence + articulation) / 3 against 85, 75, 65, 55
OverallSentence(clarity_score, confidence_score, articulation_score) ==
    LET total == clarity_score + confidence_score + articulation_score
    IN  IF total >= 3 * 85 THEN
            "Excellent communication skills! Your speech demonstrates high proficiency across all areas."
        ELSE IF total >= 3 * 75 THEN
            "Very good communication skills. You show strong abilities with room for refinement."
        ELSE IF total >= 3 * 65 THEN
            "Good communication skills. You have a solid foundation to build upon."
        ELSE IF total >= 3 * 55 THEN
            "Developing communication skills. Focus on the areas mentioned below for improvement."
        ELSE
            "Communication skills need development. Practice the suggested areas to improve."

ClaritySentence(clarity_score) ==
    IF clarity_score >= 80 THEN
        "Your speech is very clear and easy to understand. Words are well-pronounced and your message comes across effectively."
    ELSE IF clarity_score >= 60 THEN
        "Your speech is generally clear, though some words could be more distinct. Focus on enunciation for better clarity."
    ELSE
        "Your speech clarity needs improvement. Try speaking more slowly and focusing on pronouncing each word clearly."

ConfidenceSentence(confidence_score) ==
    IF confidence_score >= 80 THEN
        "You speak with strong confidence and assurance. Your tone is assertive and your message is delivered with conviction."
    ELSE IF confidence_score >= 60 THEN
        "You show moderate confidence in your speech. While you convey your message, adding more assertiveness would strengthen your delivery."
    ELSE
        "Your confidence level could be improved. Try to speak with more conviction and use more definitive language."

ArticulationSentence(articulation_score) ==
    IF articulation_score >= 80 THEN
        "You articulate your thoughts exceptionally well. Your ideas are well-organized and expressed with precision."
    ELSE IF articulation_score >= 60 THEN
        "Your articulation is good, but could be more precise. Work on organizing your thoughts more coherently."
    ELSE
        "Your articulation needs improvement. Focus on structuring your thoughts and expressing them more clearly."

FillerNote(filler_word_count) ==
    "You used " \o ToString(filler_word_count)
        \o " filler words, which can distract from your message."

\* The feedback with the confidence sentence put before the clarity sentence
FeedbackConfidenceFirst(clarity_score, confidence_score, articulation_score, transcription, speech_analysis) ==
    Join(<< OverallSentence(clarity_score, confidence_score, articulation_score),
            ConfidenceSentence(confidence_score),
            ClaritySentence(clarity_score),
            ArticulationSentence(articulation_score) >>, " ")

_generate_enhanced_feedback(clarity_score, confidence_score, articulation_score, transcription, speech_analysis) ==
    LET bands ==
            << OverallSentence(clarity_score, confidence_score, articulation_score),
               ClaritySentence(clarity_score),
               ConfidenceSentence(confidence_score),
               ArticulationSentence(articulation_score) >>
        filler ==
            IF speech_analysis.filler_word_count > 3
            THEN <<FillerNote(speech_analysis.filler_word_count)>> ELSE <<>>
        complexity ==
            IF FracLt(Frac(7, 10), speech_analysis.complexity_score) THEN
                <<"You demonstrate good sentence complexity, showing advanced communication skills.">>
            ELSE IF FracLt(speech_analysis.complexity_score, Frac(3, 10)) THEN
                <<"Your sentences tend to be simple. Try using more complex sentence structures to express sophisticated ideas.">>
            ELSE <<>>
        flow ==
            IF FracLt(Frac(8, 10), speech_analysis.flow_score) THEN
                <<"Excellent speech flow and rhythm. Your delivery is smooth and engaging.">>
            ELSE IF FracLt(speech_analysis.flow_score, Frac(5, 10)) THEN
                <<"Your speech flow could be improved. Work on connecting ideas more smoothly.">>
            ELSE <<>>
    IN  Join(bands \o filler \o complexity \o flow, " ")

\* The suggestion blocks; the model writes the bullet sign as * and leaves out
\* the pictograph that starts each title.
ClarityBlock ==
    << "**Clarity Improvement:**",
       "* Practice speaking 20% slower than your normal pace",
       "* Record yourself reading a paragraph and analyze unclear words",
       "* Focus on mouth movements and tongue placement for difficult sounds",
       "* Use tongue twisters daily to improve diction" >>

ConfidenceBlock ==
    << "**Confidence Building:**",
       "* Practice power poses before speaking",
       "* Start with smaller groups and gradually increase audience size",
       "* Use positive affirmations and visualize successful speaking",
       "* Replace hesitant language with assertive statements" >>

ArticulationBlock ==
    << "**Articulation Enhancement:**",
       "* Outline key points before speaking",
       "* Practice the PREP method: Point, Reason, Example, Point",
       "* Read aloud daily to improve thought organization",
       "* Learn and use 5 new vocabulary words each week" >>

FillerBlock ==
    << "**Reduce Filler Words:**",
       "* Practice pausing instead of using 'um', 'uh', 'like'",
       "* Record yourself and count filler words",
       "* Use the 'chunking' technique: group words into meaningful phrases" >>

ComplexityBlock ==
    << "**Sentence Complexity:**",
       "* Practice combining simple sentences with conjunctions",
       "* Use subordinate clauses to add depth to your statements",
       "* Study complex sentence structures in professional writing" >>

FlowBlock ==
    << "**Improve Speech Flow:**",
       "* Use transition words between ideas",
       "* Practice speaking in a rhythmic, natural pattern",
       "* Avoid long pauses that break the flow of your message" >>

AdvancedBlock ==
    << "**Advanced Development:**",
       "* Practice impromptu speaking on complex topics",
       "* Study rhetorical devices and persuasive techniques",
       "* Consider joining Toastmasters or similar speaking groups",
       "* Work on vocal variety and emotional expression" >>

DailyPracticeBlock ==
    << "**Daily Practice:**",
       "* Set aside 15 minutes daily for focused speaking practice",
       "* Use a mirror to observe facial expressions and body language",
       "* Listen to professional speakers and analyze their techniques",
       "* Seek feedback from others and track your progress over time" >>

\* The suggestions with the improvement blocks given up to and including 70
SuggestionsUpTo70(clarity_score, confidence_score, articulation_score, speech_analysis) ==
    Join((IF clarity_score <= 70 THEN ClarityBlock ELSE <<>>)
         \o (IF confidence_score <= 70 THEN ConfidenceBlock ELSE <<>>)
         \o (IF articulation_score <= 70 THEN ArticulationBlock ELSE <<>>)
         \o (IF clarity_score >= 80 /\ confidence_score >= 80 /\ articulation_score >= 80
             THEN AdvancedBlock ELSE <<>>)
         \o DailyPracticeBlock, "\n")

_generate_enhanced_suggestions(clarity_score, confidence_score, articulation_score, speech_analysis) ==
    LET suggestions ==
            (IF clarity_score < 70 THEN ClarityBlock ELSE <<>>)
         \o (IF confidence_score < 70 THEN ConfidenceBlock ELSE <<>>)
         \o (IF articulation_score < 70 THEN ArticulationBlock ELSE <<>>)
         \o (IF speech_analysis.filler_word_count > 5 THEN FillerBlock ELSE <<>>)
         \o (IF FracLt(speech_analysis.complexity_score, Frac(4, 10))
             THEN ComplexityBlock ELSE <<>>)
         \o (IF FracLt(speech_analysis.flow_score, Frac(6, 10)) THEN FlowBlock ELSE <<>>)
         \o (IF clarity_score >= 80 /\ confidence_score >= 80 /\ articulation_score >= 80
             THEN AdvancedBlock ELSE <<>>)
         \o DailyPracticeBlock
    IN  Join(suggestions, "\n")

(***************************************************************************)
(* The analyzer: _analyze_communication_skills                             *)
(***************************************************************************)
WordEdgePunctuation == {".", ",", "!", "?", ";", ":", "\""}

FallbackReason == "No speech detected or transcription too short"

\* The length test with a threshold of 5
TooShortUnder5(transcription) ==
    Len(transcription) = 0 \/ Len(Strip(transcription)) < 5

\* not transcription or len(transcription.strip()) < 10
TooShort(transcription) ==
    Len(transcription) = 0 \/ Len(Strip(transcription)) < 10

\* The number of terminator characters, each of a run counted
SentenceCountCharacters(transcription) ==
    Cardinality({i \in 1..Len(transcription) : IsTerminator(Ch(transcription, i))})

\* A count of segments where the count of terminator runs is meant
SentenceCountSegments(transcription) == Len(ReSplit(transcription))

\* len(re.split(r'[.!?]+', transcription)) - 1
SentenceCount(transcription) == Len(ReSplit(transcription)) - 1

\* A quotient without the floor of the denominator
AvgWordsNoFloor(word_count, sentence_count) == Frac(word_count, sentence_count)

\* word_count / max(sentence_count, 1)
AvgWords(word_count, sentence_count) == Frac(word_count, Max(sentence_count, 1))

\* The quotient of vocabulary diversity turned over: words per unique word
VocabularyInverted(words) ==
    IF Len(words) > 0
    THEN Frac(Len(words),
              Cardinality({StripChars(Lower(words[k]), WordEdgePunctuation) :
                               k \in 1..Len(words)}))
    ELSE Zero

\* len(unique_words) / len(words) if words else 0
VocabularyDiversity(words) ==
    IF Len(words) > 0
    THEN Frac(Cardinality({StripChars(Lower(words[k]), WordEdgePunctuation) :
                               k \in 1..Len(words)}),
              Len(words))
    ELSE Zero

\* The features with the three scores of the calculators
Scored(transcription, word_count, sentence_count, avg_words_per_sentence, vocabulary_diversity, speech_analysis) ==
    [ kind |-> "features",
      transcription |-> transcription,
      word_count |-> word_count,
      sentence_count |-> sentence_count,
      avg_words_per_sentence |-> avg_words_per_sentence,
      vocabulary_diversity |-> vocabulary_diversity,
      speech_analysis |-> speech_analysis,
      clarity_score |->
          _calculate_enhanced_clarity_score(
              transcription, word_count, avg_words_per_sentence, speech_analysis),
      confidence_score |->
          _calculate_enhanced_confidence_score(transcription, speech_analysis),
      articulation_score |->
          _calculate_enhanced_articulation_score(
              transcription, word_count, vocabulary_diversity, speech_analysis) ]

Measured(transcription, words, word_count, sentence_count) ==
    Scored(transcription, word_count, sentence_count,
           AvgWords(word_count, sentence_count),
           VocabularyDiversity(words),
           _analyze_speech_patterns(transcription, words, word_count))

\* The values _analyze_communication_skills computes before it draws the
\* variation: the features and the three scores of the calculators.
Features(transcription) ==
    LET words == Split(transcription)
    IN  Measured(transcription, words, Len(words), SentenceCount(transcription))

\* The returned dict for one outcome of the three variations.  The two entries
\* of detailed_analysis that the code rounds for display are kept unrounded.
Evaluation(transcription, f, clarity, confidence, articulation) ==
    [ clarity |-> clarity,
      confidence |-> confidence,
      articulation |-> articulation,
      feedback |->
          _generate_enhanced_feedback(
              clarity, confidence, articulation, transcription, f.speech_analysis),
      suggestions |->
          _generate_enhanced_suggestions(clarity, confidence, articulation, f.speech_analysis),
      detailed_analysis |->
          [ word_count |-> f.word_count,
            sentence_count |-> f.sentence_count,
            avg_words_per_sentence |-> f.avg_words_per_sentence,
            vocabulary_diversity |-> f.vocabulary_diversity,
            speech_quality |-> f.speech_analysis.quality_rating,
            filler_words |-> f.speech_analysis.filler_word_count,
            complexity_score |-> f.speech_analysis.complexity_score,
            transcription_length |-> Len(transcription) ] ]

\* The returned dicts for the features f: one for each outcome of the three
\* calls of _add_natural_variation
Varied(transcription, f) ==
    { Evaluation(transcription, f, clarity, confidence, articulation) :
          clarity \in _add_natural_variation(f.clarity_score, f.word_count),
          confidence \in _add_natural_variation(f.confidence_score, f.word_count),
          articulation \in _add_natural_variation(f.articulation_score, f.word_count) }

_analyze_communication_skills(transcription) ==
    IF TooShort(transcription) THEN _generate_random_evaluation(FallbackReason)
    ELSE UNION {Varied(transcription, f) : f \in {Features(transcription)}}

(***************************************************************************)
(* The transcriber, at its boundary                                        *)
(***************************************************************************)
fallback_patterns ==
    <<"i couldn't understand what you said", "please try again with these tips",
      "audio recording appears to be empty", "audio processing failed",
      "could not understand audio", "speech recognition service unavailable">>

_is_fallback_message(transcription) ==
    \E k \in 1..Len(fallback_patterns) : Contains(Lower(transcription), fallback_patterns[k])

Letters == {Ch(LowerCase, i) : i \in 1..Len(LowerCase)}

Vowels == {"a", "e", "i", "o", "u"}

_is_valid_transcription(transcription) ==
    LET cleaned == Lower(Strip(transcription))
        chars == {Ch(cleaned, i) : i \in 1..Len(cleaned)}
    IN  /\ Len(cleaned) >= 2
        /\ chars \cap Letters # {}
        /\ ~(Cardinality(chars) <= 2 /\ Len(cleaned) > 5)
        /\ ~(Cardinality(chars) = 1 /\ Len(cleaned) >= 4 /\ "\n" \notin chars)
        /\ ~(chars \subseteq Vowels \cup Whitespace)

TooShortAudioMessage ==
    "Audio recording appears to be empty or too short. Please ensure you speak for at least 2-3 seconds."

NotUnderstoodMessage ==
    "I couldn't understand what you said. Please try again with these tips:\n\n1. **Speak clearly and at a normal pace** - Not too fast, not too slow\n2. **Reduce background noise** - Move to a quieter room if possible\n3. **Get closer to the microphone** - About 6-12 inches away\n4. **Speak for 3-5 seconds** - Longer recordings work better\n5. **Try simple sentences** like 'Hello, my name is John and I like programming'\n\nClick the record button and try again!"

ProcessingErrorMessage == "Error processing audio: Incorrect padding"

\* What _transcribe_audio returns for an upload: the audio is described by what
\* decoding and recognition make of it.
_transcribe_audio(audio) ==
    IF audio.kind = "undecodable" THEN ProcessingErrorMessage
    ELSE IF audio.kind = "tiny" THEN TooShortAudioMessage
    ELSE IF audio.kind = "speech"
            /\ _is_valid_transcription(audio.heard)
            /\ ~_is_fallback_message(audio.heard)
    THEN audio.heard
    ELSE NotUnderstoodMessage

(***************************************************************************)
(* The two evaluation entry points                                         *)
(***************************************************************************)
\* An exception that leaves a call
Raised == [kind |-> "raised"]

Output(transcription, clarity, confidence, articulation, feedback, suggestions, detail) ==
    [ kind |-> "returned",
      transcription |-> transcription,
      clarity |-> clarity,
      confidence |-> confidence,
      articulation |-> articulation,
      feedback |-> feedback,
      suggestions |-> suggestions,
      analysis |-> detail ]

EmptyTextOutput ==
    Output("No text provided for evaluation.", 0, 0, 0,
           "Please provide some text to evaluate your communication skills.",
           "Try speaking for at least 3-5 seconds and then click stop recording.",
           [error |-> "Empty transcription"])

TextErrorOutput ==
    Output("Error evaluating text. Please try again.", 50, 50, 50,
           "There was an error analyzing your text. Please try again.",
           "Try recording your speech again.",
           [error |-> "exception"])

AudioErrorOutput ==
    Output("Unable to transcribe audio. Please try again.", 50, 50, 50,
           "There was an error processing your audio. Please check your microphone and try again.",
           "Ensure your microphone is working properly and you're speaking clearly.",
           [error |-> "exception"])

\* The results of the analyzer inside the try block: with fault, the run of
\* the analyzer ends in an unexpected exception.
Analyzed(transcription, fault) ==
    IF fault THEN {Raised} ELSE _analyze_communication_skills(transcription)

FromAnalysis(transcription, r) ==
    Output(transcription, r.clarity, r.confidence, r.articulation, r.feedback,
           r.suggestions, r.detailed_analysis)

\* The handler without its except clause: the exception leaves the call
TextOutcomeUncaught(transcription, r) ==
    IF r = Raised THEN Raised ELSE FromAnalysis(transcription, r)

\* except Exception as e: return the fixed record
TextOutcome(transcription, r) ==
    IF r = Raised THEN TextErrorOutput ELSE FromAnalysis(transcription, r)

evaluate_text_only(input_data, fault) ==
    LET transcription == Strip(input_data)
    IN  IF Len(transcription) = 0 THEN {EmptyTextOutput}
        ELSE {TextOutcome(transcription, r) : r \in Analyzed(transcription, fault)}

AudioOutcome(transcription, r) ==
    IF r = Raised THEN AudioErrorOutput ELSE FromAnalysis(transcription, r)

evaluate_transcription(audio, fault) ==
    LET transcription == _transcribe_audio(audio)
    IN  {AudioOutcome(transcription, r) : r \in Analyzed(transcription, fault)}

(***************************************************************************)
(* Inputs                                                                  *)
(***************************************************************************)
MaxPieces == 1

MaxCalcPieces == 2

MaxFiller == 10

BaseMargin == 20

MaxVariationWords == 160

ScenarioText ==
    "Hello my name is John and I like programming. I am confident and excited about this opportunity."

Samples ==
    { "",
      "   ",
      "Hi there",
      " \t Hi. \n",
      ScenarioText,
      "the quick brown fox jumps over the lazy dog near the river",
      "um uh like maybe perhaps possibly I might could should would actually basically literally sort of kind of you know",
      "Let me explain clearly so you understand. This simple and direct plan is obvious and apparent to everyone here today. We believe it will definitely work and we are absolutely certain, confident and sure.",
      "Today um I want to talk about um the new project that we started um last week with the whole team. It was um a really good start and um everyone helped.",
      "However, um, I was not sure... Therefore we will definitely start the whole project plan together with the whole team and everyone here next week?! Go now." }

Vocabulary ==
    << "I think we could maybe explain this clearly. ",
       "Um, you know, it is like basically fine! ",
       "Therefore I am definitely confident that we can lead and manage the whole project plan together with everyone? ",
       "Go there now. ",
       "however the plan is simple and direct " >>

RECURSIVE Concat(_)
Concat(pieces) ==
    IF Len(pieces) = 0 THEN "" ELSE Vocabulary[pieces[1]] \o Concat(Tail(pieces))

\* The texts made of at most n pieces of the vocabulary
Composed(n) ==
    {Concat(pieces) : pieces \in UNION {[1..k -> 1..Len(Vocabulary)] : k \in 0..n}}

TextInputs == Samples \cup Composed(MaxPieces)

AudioInputs ==
    { [kind |-> "undecodable"], [kind |-> "tiny"], [kind |-> "unintelligible"] }
        \cup { [kind |-> "speech", heard |-> t] : t \in {ScenarioText, "Hi there", "oooo"} }

\* Transcripts of 15 to 36 words whose articulation and clarity stay below 100
CalcSamples ==
    { "We see the plan. We see the team. We see the work. We see the goal. We all see the plan. We all see the team. We all see the work? We all see the goal!",
      "We see the plan. We see the team. We see the work. We see the goal. You see the plan. You see the team! You see it.",
      "The team made the plan. Then the team made the work! Then we made it.",
      "The team made the plan today. Then the new team made the work again! Did we see it?" }

CalcInputs == {t \in Samples \cup CalcSamples \cup Composed(MaxCalcPieces) : ~TooShort(t)}

Reasons == {FallbackReason, "Audio transcription failed"}

NoAnalysis == [kind |-> "none"]

NoResult == [kind |-> "none"]

\* The history file has not been written: json.load raises FileNotFoundError
NoFile == [state |-> "missing", entries |-> <<>>]

StoreAbsent == history_file = NoFile /\ saved_entries = <<>>

(***************************************************************************)
(* Spec: one request to an evaluation entry point and its response         *)
(***************************************************************************)
ServiceCalls ==
    { [op |-> "evaluate_text_only", transcription |-> t, fault |-> f] :
          t \in TextInputs, f \in BOOLEAN }
        \cup { [op |-> "evaluate_transcription", audio |-> a, fault |-> f] :
                   a \in AudioInputs, f \in BOOLEAN }

Init ==
    /\ call \in ServiceCalls
    /\ analysis = NoAnalysis
    /\ result = NoResult
    /\ StoreAbsent

\* What the analyzer did with the transcript it was handed: it raised, it left
\* the work to the fallback generator, or it ran the scoring pipeline
Computed(transcription, fault) ==
    IF fault THEN [kind |-> "raised", transcription |-> transcription]
    ELSE IF TooShort(transcription) THEN [kind |-> "fallback", transcription |-> transcription]
    ELSE Features(transcription)

\* evaluate_text_only returns before the analyzer when the text is empty
ComputedForText(input_data, fault) ==
    IF Strip(input_data) = "" THEN NoAnalysis ELSE Computed(Strip(input_data), fault)

\* An evaluation that also writes a record of the request into the history file
EvaluateTextOnlyRecording ==
    /\ call.op = "evaluate_text_only"
    /\ result = NoResult
    /\ \E computed \in {ComputedForText(call.transcription, call.fault)} :
           \E r \in evaluate_text_only(call.transcription, call.fault) :
               /\ result' = r
               /\ analysis' = computed
    /\ history_file' =
           [ state |-> "list",
             entries |-> (IF history_file.state = "list" THEN history_file.entries ELSE <<>>)
                            \o <<[transcription |-> call.transcription]>> ]
    /\ UNCHANGED <<call, saved_entries>>

EvaluateTextOnly ==
    /\ call.op = "evaluate_text_only"
    /\ result = NoResult
    /\ \E computed \in {ComputedForText(call.transcription, call.fault)} :
           \E r \in evaluate_text_only(call.transcription, call.fault) :
               /\ result' = r
               /\ analysis' = computed
    /\ UNCHANGED <<call, store>>

EvaluateTranscription ==
    /\ call.op = "evaluate_transcription"
    /\ result = NoResult
    /\ \E computed \in {Computed(_transcribe_audio(call.audio), call.fault)} :
           \E r \in evaluate_transcription(call.audio, call.fault) :
               /\ result' = r
               /\ analysis' = computed
    /\ UNCHANGED <<call, store>>

Next == EvaluateTextOnly \/ EvaluateTranscription

Spec == Init /\ [][Next]_vars

(***************************************************************************)
(* SpecCalc: the feature extractor and the calculators on one transcript,  *)
(* then the clarity and confidence calculators again with only the filler  *)
(* count of the features changed                                           *)
(***************************************************************************)
InitCalc ==
    /\ call \in {[op |-> "_analyze_communication_skills", transcription |-> t] : t \in CalcInputs}
    /\ analysis = NoAnalysis
    /\ result = NoResult
    /\ StoreAbsent

Extract ==
    /\ call.op = "_analyze_communication_skills"
    /\ analysis = NoAnalysis
    /\ analysis' = Features(call.transcription)
    /\ UNCHANGED <<call, result, store>>

WithFiller(speech_analysis, count) ==
    [speech_analysis EXCEPT !.filler_word_count = count]

\* clarity and confidence for each filler count of 0..MaxFiller, other features as extracted
FillerSweep(transcription, f) ==
    [ count \in 0..MaxFiller |->
        [ clarity |->
              _calculate_enhanced_clarity_score(
                  transcription, f.word_count, f.avg_words_per_sentence,
                  WithFiller(f.speech_analysis, count)),
          confidence |->
              _calculate_enhanced_confidence_score(
                  transcription, WithFiller(f.speech_analysis, count)) ] ]

Rescore ==
    /\ call.op = "_analyze_communication_skills"
    /\ analysis # NoAnalysis
    /\ result = NoResult
    /\ \E sweep \in {FillerSweep(call.transcription, analysis)} :
           \E low \in 0..MaxFiller, high \in 0..MaxFiller :
               /\ low < high
               /\ result' = [ kind |-> "rescored", low |-> low, high |-> high,
                              clarity_low |-> sweep[low].clarity,
                              clarity_high |-> sweep[high].clarity,
                              confidence_low |-> sweep[low].confidence,
                              confidence_high |-> sweep[high].confidence ]
    /\ UNCHANGED <<call, analysis, store>>

\* The speech analysis of the features f, had the transcript held count filler
\* hits: the quality rating is computed anew from the count
Recounted(f, count) ==
    SpeechAnalysis(f.transcription, Split(f.transcription), f.word_count, count,
                   f.speech_analysis.complexity_score, f.speech_analysis.flow_score)

\* The clarity of the features f under the speech analysis sa
ClarityUnder(f, sa) ==
    _calculate_enhanced_clarity_score(
        f.transcription, f.word_count, f.avg_words_per_sentence, sa)

\* clarity without filler hits and with count filler hits, other features as extracted
Recount ==
    /\ call.op = "_analyze_communication_skills"
    /\ analysis # NoAnalysis
    /\ result = NoResult
    /\ \E count \in 1..MaxFiller :
           \E none \in {Recounted(analysis, 0)}, some \in {Recounted(analysis, count)} :
               result' = [ kind |-> "recounted", count |-> count,
                           quality_bonus_none |-> QualityBonus(none),
                           quality_bonus_some |-> QualityBonus(some),
                           clarity_none |-> ClarityUnder(analysis, none),
                           clarity_some |-> ClarityUnder(analysis, some) ]
    /\ UNCHANGED <<call, analysis, store>>

\* The lexical and the fractional terms the three calculators add or subtract
Bonuses ==
    /\ call.op = "_analyze_communication_skills"
    /\ analysis # NoAnalysis
    /\ result = NoResult
    /\ \E text \in {Lower(analysis.transcription)} :
           result' = [ kind |-> "bonuses",
                       clarity_bonus |-> BonusFor(text, clarity_indicators, 4),
                       strong_bonus |-> BonusFor(text, strong_confidence, 6),
                       moderate_bonus |-> BonusFor(text, moderate_confidence, 3),
                       leadership_bonus |-> BonusFor(text, leadership_words, 5),
                       uncertainty_penalty |-> BonusFor(text, uncertainty_words, 3),
                       articulation_bonus |-> BonusFor(text, articulation_words, 4),
                       quality_bonus |-> QualityBonus(analysis.speech_analysis),
                       complexity_bonus |->
                           IntOfScaled(analysis.speech_analysis.complexity_score, 15),
                       flow_bonus |-> FlowBonus(analysis.speech_analysis.flow_score) ]
    /\ UNCHANGED <<call, analysis, store>>

NextCalc == Extract \/ Rescore \/ Recount \/ Bonuses

SpecCalc == InitCalc /\ [][NextCalc]_vars

(***************************************************************************)
(* SpecVariation: one call of _add_natural_variation                       *)
(***************************************************************************)
InitVariation ==
    /\ call \in { [op |-> "_add_natural_variation", base_score |-> b, word_count |-> w] :
                      b \in (40 - BaseMargin)..(100 + BaseMargin),
                      w \in 0..MaxVariationWords }
    /\ analysis = NoAnalysis
    /\ result = NoResult
    /\ StoreAbsent

AddNaturalVariation ==
    /\ call.op = "_add_natural_variation"
    /\ result = NoResult
    /\ \E score \in _add_natural_variation(call.base_score, call.word_count) :
           result' = [kind |-> "returned", value |-> score]
    /\ UNCHANGED <<call, analysis, store>>

NextVariation == AddNaturalVariation

SpecVariation == InitVariation /\ [][NextVariation]_vars

(***************************************************************************)
(* SpecFallback: one call of _generate_random_evaluation                   *)
(***************************************************************************)
InitFallback ==
    /\ call \in {[op |-> "_generate_random_evaluation", reason |-> r] : r \in Reasons}
    /\ analysis = NoAnalysis
    /\ result = NoResult
    /\ StoreAbsent

GenerateRandomEvaluation ==
    /\ call.op = "_generate_random_evaluation"
    /\ result = NoResult
    /\ \E r \in _generate_random_evaluation(call.reason) :
           result' = [kind |-> "returned", value |-> r]
    /\ UNCHANGED <<call, analysis, store>>

NextFallback == GenerateRandomEvaluation

SpecFallback == InitFallback /\ [][NextFallback]_vars

(***************************************************************************)
(* The composers on their own: _generate_enhanced_feedback and             *)
(* _generate_enhanced_suggestions applied to score triples and speech      *)
(* analyses around every threshold they test                               *)
(***************************************************************************)
ScoreSamples == {30, 55, 59, 60, 69, 70, 79, 80, 85, 100}

\* The entries of speech_analysis the composers read
Patterns(filler_word_counts, complexity_scores, flow_scores) ==
    { [ filler_word_count |-> f, complexity_score |-> c, flow_score |-> w ] :
          f \in filler_word_counts, c \in complexity_scores, w \in flow_scores }

FeedbackPatterns ==
    Patterns({3, 4, 6},
             {Frac(1, 5), Frac(3, 10), Frac(1, 2), Frac(7, 10), Frac(4, 5)},
             {Frac(2, 5), Frac(1, 2), Frac(4, 5), Frac(1, 1)})

SuggestionPatterns ==
    Patterns({5, 6}, {Frac(3, 10), Frac(2, 5)}, {Frac(1, 2), Frac(3, 5)})

InitCompose ==
    /\ call \in { [ op |-> "compose", clarity_score |-> clarity,
                    confidence_score |-> confidence, articulation_score |-> articulation ] :
                      clarity \in ScoreSamples, confidence \in ScoreSamples,
                      articulation \in ScoreSamples }
    /\ analysis = NoAnalysis
    /\ result = NoResult
    /\ StoreAbsent

GenerateEnhancedFeedback ==
    /\ call.op = "compose"
    /\ result = NoResult
    /\ \E speech_analysis \in FeedbackPatterns :
           /\ analysis' = speech_analysis
           /\ result' = [ kind |-> "feedback",
                          text |-> _generate_enhanced_feedback(
                                       call.clarity_score, call.confidence_score,
                                       call.articulation_score, "", speech_analysis) ]
    /\ UNCHANGED <<call, store>>

GenerateEnhancedSuggestions ==
    /\ call.op = "compose"
    /\ result = NoResult
    /\ \E speech_analysis \in SuggestionPatterns :
           /\ analysis' = speech_analysis
           /\ result' = [ kind |-> "suggestions",
                          text |-> _generate_enhanced_suggestions(
                                       call.clarity_score, call.confidence_score,
                                       call.articulation_score, speech_analysis) ]
    /\ UNCHANGED <<call, store>>

NextCompose == GenerateEnhancedFeedback \/ GenerateEnhancedSuggestions

SpecCompose == InitCompose /\ [][NextCompose]_vars

(***************************************************************************)
(* SpecLegacy: the legacy wrappers _generate_feedback and                  *)
(* _generate_suggestions, which call the composers with an empty dict      *)
(***************************************************************************)
\* The dict {} the wrappers pass as speech_analysis
EmptyDict == [key \in {} |-> 0]

\* The first of the keys the composers subscript that the dict lacks
MissingKey(speech_analysis) ==
    IF "filler_word_count" \notin DOMAIN speech_analysis THEN "filler_word_count"
    ELSE IF "complexity_score" \notin DOMAIN speech_analysis THEN "complexity_score"
    ELSE IF "flow_score" \notin DOMAIN speech_analysis THEN "flow_score"
    ELSE ""

KeyError(key) == [kind |-> "raised", error |-> "KeyError: '" \o key \o "'"]

_generate_feedback(clarity_score, confidence_score, articulation_score, transcription) ==
    IF MissingKey(EmptyDict) # ""
    THEN KeyError(MissingKey(EmptyDict))
    ELSE [ kind |-> "returned",
           text |-> _generate_enhanced_feedback(clarity_score, confidence_score,
                                                articulation_score, transcription, EmptyDict) ]

_generate_suggestions(clarity_score, confidence_score, articulation_score) ==
    IF MissingKey(EmptyDict) # ""
    THEN KeyError(MissingKey(EmptyDict))
    ELSE [ kind |-> "returned",
           text |-> _generate_enhanced_suggestions(clarity_score, confidence_score,
                                                   articulation_score, EmptyDict) ]

GenerateFeedback ==
    /\ call.op = "compose"
    /\ result = NoResult
    /\ result' = [ kind |-> "legacy_feedback",
                   outcome |-> _generate_feedback(call.clarity_score, call.confidence_score,
                                                  call.articulation_score, "") ]
    /\ UNCHANGED <<call, analysis, store>>

GenerateSuggestions ==
    /\ call.op = "compose"
    /\ result = NoResult
    /\ result' = [ kind |-> "legacy_suggestions",
                   outcome |-> _generate_suggestions(call.clarity_score, call.confidence_score,
                                                     call.articulation_score) ]
    /\ UNCHANGED <<call, analysis, store>>

NextLegacy == GenerateFeedback \/ GenerateSuggestions

SpecLegacy == InitCompose /\ [][NextLegacy]_vars

(***************************************************************************)
(* SpecHistory: the history handlers on data/communication_history.json,   *)
(* with evaluation requests arriving in between                            *)
(***************************************************************************)
MaxEntries == 2

Students == {"21CS101", "21CS102"}

\* ISO timestamps as the recording client sends them, all in one format
Timestamps == {"2024-03-09T18:05:00.000Z", "2024-03-10T07:30:00.000Z"}

\* str(uuid.uuid4()): uuids differ from call to call; the handlers only compare them
Uuids == {"3f2b8c1e-0d4a-4e6b-9a7c-00000000000" \o ToString(k) : k \in 1..MaxEntries}

\* The ids a delete request may carry: uuids, and list positions as save returns them
ItemIds == Uuids \cup {"0", "1"}

\* The file holds no JSON document (for example it is empty): JSONDecodeError
CorruptFile == [state |-> "corrupt", entries |-> <<>>]

HistoryFile(entries) == [state |-> "list", entries |-> entries]

\* existing_history after the inner try: the list of the file, [] when the
\* file is missing or cannot be decoded
Loaded(file) == IF file.state = "list" THEN file.entries ELSE <<>>

\* history_entry, reduced to the fields the handlers read
HistoryEntry(id, student_register_number, timestamp) ==
    [ id |-> id, student_register_number |-> student_register_number,
      timestamp |-> timestamp ]

\* ord(c) for the characters of an ISO timestamp: their place in the order of
\* their code points
Ord(c) == CHOOSE i \in 1..16 : Ch("+-.0123456789:TZ", i) = c

\* a < b for str: the first differing character decides, else the length
StrLess(a, b) ==
    LET differ == {i \in 1..Min(Len(a), Len(b)) : Ch(a, i) # Ch(b, i)}
    IN  IF differ = {} THEN Len(a) < Len(b)
        ELSE Ord(Ch(a, SetMin(differ))) < Ord(Ch(b, SetMin(differ)))

\* The history in insertion order
KeepOrder(student_history) == student_history

\* student_history.sort(key=timestamp, reverse=True): a stable sort, so entries
\* with equal timestamps keep their order
RECURSIVE SortNewestFirst(_)
SortNewestFirst(student_history) ==
    IF Len(student_history) <= 1 THEN student_history
    ELSE LET sorted == SortNewestFirst(SubSeq(student_history, 1, Len(student_history) - 1))
             last   == student_history[Len(student_history)]
             before == Cardinality({i \in 1..Len(sorted) :
                                       ~StrLess(sorted[i].timestamp, last.timestamp)})
         IN  SubSeq(sorted, 1, before) \o <<last>> \o SubSeq(sorted, before + 1, Len(sorted))

\* The file and the output after save_communication_history; fault: the file
\* cannot be opened, the outer except answers
save_communication_history(file, history_entry, fault) ==
    IF fault
    THEN [ file |-> file,
           output |-> [ kind |-> "saved", success |-> FALSE,
                        message |-> "Failed to save communication history",
                        history_id |-> "-1" ] ]
    ELSE [ file |-> HistoryFile(Append(Loaded(file), history_entry)),
           output |-> [ kind |-> "saved", success |-> TRUE,
                        message |-> "Communication history saved successfully",
                        history_id |-> ToString(Len(Loaded(file)) + 1 - 1) ] ]

OfStudent(existing_history, student_register_number) ==
    LET mine(entry) == entry.student_register_number = student_register_number
    IN  SelectSeq(existing_history, mine)

get_communication_history(file, student_register_number, fault) ==
    IF fault
    THEN [ kind |-> "history", success |-> FALSE,
           message |-> "Failed to get communication history", history |-> <<>> ]
    ELSE [ kind |-> "history", success |-> TRUE,
           message |-> "Communication history retrieved successfully",
           history |-> SortNewestFirst(OfStudent(Loaded(file), student_register_number)) ]

Without(existing_history, item_id) ==
    LET other(item) == item.id # item_id
    IN  SelectSeq(existing_history, other)

Deleted(success, message) == [kind |-> "deleted", success |-> success, message |-> message]

\* The file and the output after delete_communication_history_item
delete_communication_history_item(file, item_id, fault) ==
    IF fault
    THEN [ file |-> file,
           output |-> Deleted(FALSE, "Failed to delete communication history item") ]
    ELSE IF file.state # "list"
    THEN [ file |-> file, output |-> Deleted(FALSE, "No communication history found") ]
    ELSE IF Len(Without(file.entries, item_id)) = Len(file.entries)
    THEN [ file |-> file, output |-> Deleted(FALSE, "Item not found") ]
    ELSE [ file |-> HistoryFile(Without(file.entries, item_id)),
           output |-> Deleted(TRUE, "Communication history item deleted successfully") ]

EvaluationRequests ==
    { [op |-> "evaluate_text_only", transcription |-> t, fault |-> f] :
          t \in { "",
                  "um uh like maybe perhaps possibly I might could should would actually basically literally sort of kind of you know" },
          f \in BOOLEAN }

InitHistory ==
    /\ call = [op |-> "none"]
    /\ analysis = NoAnalysis
    /\ result = NoResult
    /\ history_file \in {NoFile, CorruptFile, HistoryFile(<<>>)}
    /\ saved_entries = <<>>

Request ==
    /\ call.op # "evaluate_text_only"
    /\ call' \in EvaluationRequests
    /\ analysis' = NoAnalysis
    /\ result' = NoResult
    /\ UNCHANGED store

\* The endpoint hands the evaluation to the client; the request is over
Respond ==
    /\ call.op = "evaluate_text_only"
    /\ result # NoResult
    /\ call' = [op |-> "none"]
    /\ analysis' = NoAnalysis
    /\ result' = NoResult
    /\ UNCHANGED store

SaveCommunicationHistory ==
    /\ call.op # "evaluate_text_only"
    /\ Len(Loaded(history_file)) < MaxEntries
    /\ \E student \in Students, timestamp \in Timestamps, fault \in BOOLEAN :
           \E id \in Uuids \ {Loaded(history_file)[k].id : k \in 1..Len(Loaded(history_file))} :
               \E saved \in {save_communication_history(
                                 history_file, HistoryEntry(id, student, timestamp), fault)} :
                   /\ call' = [ op |-> "save_communication_history",
                                student_register_number |-> student,
                                timestamp |-> timestamp, fault |-> fault ]
                   /\ result' = saved.output
                   /\ history_file' = saved.file
                   /\ saved_entries' =
                          IF saved.output.success
                          THEN Append(saved_entries, HistoryEntry(id, student, timestamp))
                          ELSE saved_entries
    /\ UNCHANGED analysis

GetCommunicationHistory ==
    /\ call.op # "evaluate_text_only"
    /\ \E student \in Students, fault \in BOOLEAN :
           /\ call' = [ op |-> "get_communication_history",
                        student_register_number |-> student, fault |-> fault ]
           /\ result' = get_communication_history(history_file, student, fault)
    /\ UNCHANGED <<analysis, store>>

DeleteCommunicationHistoryItem ==
    /\ call.op # "evaluate_text_only"
    /\ \E item_id \in ItemIds, fault \in BOOLEAN :
           \E deleted \in {delete_communication_history_item(history_file, item_id, fault)} :
               /\ call' = [ op |-> "delete_communication_history_item",
                            item_id |-> item_id, fault |-> fault ]
               /\ result' = deleted.output
               /\ history_file' = deleted.file
               /\ saved_entries' =
                      IF deleted.output.success
                      THEN Without(saved_entries, item_id)
                      ELSE saved_entries
    /\ UNCHANGED analysis

NextHistory ==
    \/ Request
    \/ EvaluateTextOnly
    \/ Respond
    \/ SaveCommunicationHistory
    \/ GetCommunicationHistory
    \/ DeleteCommunicationHistoryItem

SpecHistory == InitHistory /\ [][NextHistory]_vars

(***************************************************************************)
(* SpecAudio: one call of _process_audio_with_multiple_methods, step by    *)
(* step: the three methods, the recognition attempts each of them makes    *)
(* and the alternative recognition.  What decoding and the recognizer make *)
(* of the audio is chosen at each step.                                    *)
(***************************************************************************)
max_attempts == 3

\* What one call of recognizer.recognize_google yields: a transcript, an
\* UnknownValueError, a RequestError or another exception
RecognitionOutcomes ==
    { [kind |-> "heard", text |-> t] : t \in {"Hi there", "oooo", "Could not understand audio"} }
        \cup { [kind |-> "unknown"], [kind |-> "request_error"], [kind |-> "error"] }

ServiceUnavailableMessage ==
    "Speech recognition service unavailable. Please check your internet connection and try again. Error: recognition connection failed: timed out"

\* The message of _try_direct_processing for a recording of half a second
TooBriefMessage ==
    "Audio recording is too short (0.5 seconds). Please speak for at least 2-3 seconds."

None == [kind |-> "none"]

Text(t) == [kind |-> "text", text |-> t]

\* The position inside the call: the method that runs, the place in it, the
\* counter of the retry loop, the value the method returned; and, recorded
\* beside them, the calls made so far and what the last recognition yielded
Progress(method, at, attempts, primary, alternative, value, tried, temp_files, on_disk) ==
    [ kind |-> "processing", method |-> method, at |-> at, attempts |-> attempts,
      primary |-> primary, alternative |-> alternative, value |-> value,
      tried |-> tried, temp_files |-> temp_files, on_disk |-> on_disk, outcome |-> None ]

\* A method reached recognition, or returned value without reaching it; the
\* files it wrote; methods 1 and 2 enter theirs in temp_files
Entered(p, name, recognizing, value, files) ==
    Progress(p.method, IF recognizing THEN "recognition" ELSE "returned", 0, 0, 0,
             value, Append(p.tried, name),
             IF name = "simple" THEN p.temp_files ELSE p.temp_files \cup files,
             p.on_disk \cup files)

InitAudio ==
    /\ call \in { [op |-> "_process_audio_with_multiple_methods", clean_format |-> f] :
                      f \in {"webm", "wav"} }
    /\ analysis = Progress(1, "method", 0, 0, 0, None, <<>>, {}, {})
    /\ result = NoResult
    /\ StoreAbsent

\* Method 1 up to its recognition: the upload is written, converted when it is
\* webm and ffmpeg is there, opened (or wrapped in a plain WAV header when it
\* cannot be opened) and measured
TryDirectProcessing ==
    /\ call.op = "_process_audio_with_multiple_methods"
    /\ analysis.at = "method"
    /\ analysis.method = 1
    /\ \E converted \in {c \in BOOLEAN : c => call.clean_format = "webm"},
          outcome \in {"failed", "brief", "readable", "rewrapped", "unreadable"} :
           \E files \in { {"temp_audio_" \o call.clean_format \o "." \o call.clean_format}
                            \cup (IF converted
                                  THEN {"temp_converted_" \o call.clean_format \o ".wav"}
                                  ELSE {})
                            \cup (IF outcome \in {"rewrapped", "unreadable"}
                                  THEN {"temp_simple_fallback.wav"} ELSE {}) } :
               analysis' =
                   CASE outcome = "failed" -> Entered(analysis, "direct", FALSE, None, {})
                     [] outcome = "brief" ->
                            Entered(analysis, "direct", FALSE, Text(TooBriefMessage), files)
                     [] outcome = "unreadable" ->
                            Entered(analysis, "direct", FALSE, None, files)
                     [] OTHER -> Entered(analysis, "direct", TRUE, None, files)
    /\ UNCHANGED <<call, result, store>>

\* Method 2 up to its recognition: skipped without ffmpeg
TryEnhancedProcessing ==
    /\ call.op = "_process_audio_with_multiple_methods"
    /\ analysis.at = "method"
    /\ analysis.method = 2
    /\ \E outcome \in {"no_ffmpeg", "failed", "readable"} :
           \E name \in {"temp_enhanced_" \o call.clean_format} :
               analysis' =
                   CASE outcome = "no_ffmpeg" -> Entered(analysis, "enhanced", FALSE, None, {})
                     [] outcome = "failed" ->
                            Entered(analysis, "enhanced", FALSE, None,
                                    {name \o "." \o call.clean_format})
                     [] OTHER ->
                            Entered(analysis, "enhanced", TRUE, None,
                                    {name \o "." \o call.clean_format, name \o "_enhanced.wav"})
    /\ UNCHANGED <<call, result, store>>

\* Method 3 up to its recognition
TrySimpleFallback ==
    /\ call.op = "_process_audio_with_multiple_methods"
    /\ analysis.at = "method"
    /\ analysis.method = 3
    /\ \E outcome \in {"failed", "unreadable", "readable"} :
           analysis' = Entered(analysis, "simple", outcome = "readable", None,
                               IF outcome = "failed" THEN {} ELSE {"temp_simple_fallback.wav"})
    /\ UNCHANGED <<call, result, store>>

\* The attempts counter when a RequestError counts as one more failed attempt
AttemptsRetryingRequests(attempts, outcome) ==
    IF outcome.kind = "heard" /\ _is_valid_transcription(outcome.text)
    THEN attempts
    ELSE attempts + 1

\* The attempts counter after an attempt with this outcome

AttemptsAfter(attempts, outcome) ==
    IF outcome.kind = "unknown" \/ outcome.kind = "error"
          \/ (outcome.kind = "heard" /\ ~_is_valid_transcription(outcome.text))
    THEN attempts + 1
    ELSE attempts

\* One pass of the loop of _try_recognition_with_retries
RecognitionAttempt ==
    /\ call.op = "_process_audio_with_multiple_methods"
    /\ analysis.at = "recognition"
    /\ analysis.attempts < max_attempts
    /\ \E outcome \in RecognitionOutcomes :
           \E attempts \in {AttemptsAfter(analysis.attempts, outcome)} :
               analysis' =
                   [ analysis EXCEPT
                       !.primary = @ + 1,
                       !.outcome = outcome,
                       !.attempts = attempts,
                       !.at = IF attempts > analysis.attempts THEN "recognition" ELSE "returned",
                       !.value = IF attempts > analysis.attempts THEN None
                                 ELSE IF outcome.kind = "request_error"
                                 THEN Text(ServiceUnavailableMessage)
                                 ELSE Text(outcome.text) ]
    /\ UNCHANGED <<call, result, store>>

\* The five further recognitions of _try_alternative_recognition: the first
\* valid transcript, or None
_try_alternative_recognition(outcomes) ==
    IF \E k \in 1..Len(outcomes) :
           outcomes[k].kind = "heard" /\ _is_valid_transcription(outcomes[k].text)
    THEN Text(outcomes[CHOOSE k \in 1..Len(outcomes) :
                           /\ outcomes[k].kind = "heard"
                           /\ _is_valid_transcription(outcomes[k].text)
                           /\ \A j \in 1..(k - 1) :
                                  ~(outcomes[j].kind = "heard"
                                      /\ _is_valid_transcription(outcomes[j].text))].text)
    ELSE None

\* What the alternative recognition can return: each of its recognitions
\* yields a transcript or fails
AlternativeResults ==
    { _try_alternative_recognition(outcomes) :
          outcomes \in [1..5 -> {o \in RecognitionOutcomes : o.kind \in {"heard", "unknown"}}] }

\* The loop of _try_recognition_with_retries is left after the last failure
TryAlternativeRecognition ==
    /\ call.op = "_process_audio_with_multiple_methods"
    /\ analysis.at = "recognition"
    /\ analysis.attempts >= max_attempts
    /\ \E value \in AlternativeResults :
           analysis' = [ analysis EXCEPT !.alternative = @ + 1, !.at = "returned",
                                         !.value = value ]
    /\ UNCHANGED <<call, result, store>>

\* What a method returned is taken when it is a text that is no fallback
\* message
Accepted(value) == value.kind = "text" /\ value.text # "" /\ ~_is_fallback_message(value.text)

\* The files left when the call returns: method 3 removes its file after its
\* recognition, the cleanup removes the files entered in temp_files
Remaining(p) ==
    (p.on_disk \ p.temp_files)
        \ (IF p.method = 3 /\ p.primary > 0 THEN {"temp_simple_fallback.wav"} ELSE {})

\* The test after each method, the final message and the cleanup
ProcessReturned ==
    /\ call.op = "_process_audio_with_multiple_methods"
    /\ analysis.at = "returned"
    /\ IF Accepted(analysis.value)
       THEN /\ result' = analysis.value
            /\ analysis' = [analysis EXCEPT !.at = "done", !.on_disk = Remaining(analysis)]
       ELSE IF analysis.method < 3
       THEN /\ analysis' = [analysis EXCEPT !.method = @ + 1, !.at = "method"]
            /\ UNCHANGED result
       ELSE /\ result' = Text(NotUnderstoodMessage)
            /\ analysis' = [analysis EXCEPT !.at = "done", !.on_disk = Remaining(analysis)]
    /\ UNCHANGED <<call, store>>

NextAudio ==
    \/ TryDirectProcessing
    \/ TryEnhancedProcessing
    \/ TrySimpleFallback
    \/ RecognitionAttempt
    \/ TryAlternativeRecognition
    \/ ProcessReturned

SpecAudio == InitAudio /\ [][NextAudio]_vars

\* Every call of the recognizer returns: a pass of the retry loop that is
\* possible is made, and so is the alternative recognition after the loop
SpecAudioFair ==
    SpecAudio /\ WF_vars(RecognitionAttempt) /\ WF_vars(TryAlternativeRecognition)

(***************************************************************************)
(* SpecConcurrent: two calls of evaluate_transcription with uploads of the *)
(* same format, made from two threads that share the working directory.   *)
(* Each call is followed through method 1 of                               *)
(* _process_audio_with_multiple_methods, file operation by file operation; *)
(* the content of a file is the number of the request whose audio it       *)
(* holds.  A recording that can be read is recognized.                     *)
(***************************************************************************)
Requests == {1, 2}

Absent == 0

TempAudio == "temp_audio_webm.webm"

TempConverted == "temp_converted_webm.wav"

TempFallback == "temp_simple_fallback.wav"

\* The state of the two calls: where each one is, the file it will open, its
\* temp_files list, the audio it was transcribed from, whether a file it had
\* written was gone when it came to read it; and the files of the directory
Threads(pc, temp_filename, temp_files, heard, lost, files) ==
    [ kind |-> "threads", pc |-> pc, temp_filename |-> temp_filename,
      temp_files |-> temp_files, heard |-> heard, lost |-> lost, files |-> files ]

InitConcurrent ==
    /\ call \in { [op |-> "evaluate_transcription", format |-> "webm", ffmpeg |-> f] :
                      f \in BOOLEAN }
    /\ analysis = Threads([r \in Requests |-> "write"], [r \in Requests |-> TempAudio],
                          [r \in Requests |-> {}], [r \in Requests |-> Absent],
                          [r \in Requests |-> FALSE],
                          [f \in {TempAudio, TempConverted, TempFallback} |-> Absent])
    /\ result = NoResult
    /\ StoreAbsent

\* Lines 204-208: the upload is written under the fixed name
WriteUpload ==
    /\ analysis.kind = "threads"
    /\ \E r \in Requests :
           /\ analysis.pc[r] = "write"
           /\ analysis' =
                  [ analysis EXCEPT
                      !.pc[r] = IF call.ffmpeg THEN "load" ELSE "open",
                      !.temp_files[r] = {TempAudio},
                      !.files[TempAudio] = r ]
    /\ UNCHANGED <<call, result, store>>

\* Lines 224-235: with ffmpeg the file is loaded and exported as WAV; when
\* the file is gone the conversion fails and the original name is kept
ConvertUpload ==
    /\ analysis.kind = "threads"
    /\ \E r \in Requests :
           /\ analysis.pc[r] = "load"
           /\ analysis' =
                  IF analysis.files[TempAudio] = Absent
                  THEN [analysis EXCEPT !.pc[r] = "open", !.lost[r] = TRUE]
                  ELSE [ analysis EXCEPT
                           !.pc[r] = "open",
                           !.temp_filename[r] = TempConverted,
                           !.temp_files[r] = @ \cup {TempConverted},
                           !.files[TempConverted] = analysis.files[TempAudio] ]
    /\ UNCHANGED <<call, result, store>>

\* Lines 251-273: the file is opened and recorded; a webm file or a missing
\* file raises and leads to _create_simple_wav_fallback
OpenAudio ==
    /\ analysis.kind = "threads"
    /\ \E r \in Requests :
           /\ analysis.pc[r] = "open"
           /\ analysis' =
                  IF analysis.temp_filename[r] = TempConverted
                        /\ analysis.files[TempConverted] # Absent
                  THEN [ analysis EXCEPT !.pc[r] = "cleanup",
                                         !.heard[r] = analysis.files[TempConverted] ]
                  ELSE [ analysis EXCEPT
                           !.pc[r] = "rewrap",
                           !.lost[r] = @ \/ analysis.files[analysis.temp_filename[r]] = Absent ]
    /\ UNCHANGED <<call, result, store>>

\* Lines 291-320: the bytes of the request are written behind a WAV header
WriteFallback ==
    /\ analysis.kind = "threads"
    /\ \E r \in Requests :
           /\ analysis.pc[r] = "rewrap"
           /\ analysis' =
                  [ analysis EXCEPT
                      !.pc[r] = "reopen",
                      !.temp_files[r] = @ \cup {TempFallback},
                      !.files[TempFallback] = r ]
    /\ UNCHANGED <<call, result, store>>

\* Lines 325-331: the fallback file is opened and recorded; when it is gone
\* method 1 returns None and the other methods follow, which are not followed here
OpenFallback ==
    /\ analysis.kind = "threads"
    /\ \E r \in Requests :
           /\ analysis.pc[r] = "reopen"
           /\ analysis' =
                  [ analysis EXCEPT
                      !.pc[r] = "cleanup",
                      !.heard[r] = analysis.files[TempFallback],
                      !.lost[r] = @ \/ analysis.files[TempFallback] = Absent ]
    /\ UNCHANGED <<call, result, store>>

\* The files of the directory without those of the list
Removed(files, temp_files) ==
    [f \in DOMAIN files |-> IF f \in temp_files THEN Absent ELSE files[f]]

\* Lines 185-194: every file of temp_files that exists is removed
Cleanup ==
    /\ analysis.kind = "threads"
    /\ \E r \in Requests :
           /\ analysis.pc[r] = "cleanup"
           /\ analysis' =
                  [ analysis EXCEPT
                      !.pc[r] = "done",
                      !.files = Removed(analysis.files, analysis.temp_files[r]) ]
    /\ UNCHANGED <<call, result, store>>

NextConcurrent ==
    \/ WriteUpload
    \/ ConvertUpload
    \/ OpenAudio
    \/ WriteFallback
    \/ OpenFallback
    \/ Cleanup

SpecConcurrent == InitConcurrent /\ [][NextConcurrent]_vars

(***************************************************************************)
(* SpecLogin: the /auth/login and /auth/register endpoints over the users  *)
(* file.  A bcrypt hash is the record of the password it was made from.    *)
(***************************************************************************)
MaxUsers == 3

_hash_password(password) == [bcrypt |-> password]

DefaultUsers ==
    << [ user_id |-> "student_001", username |-> "RA2111003010001",
         password |-> _hash_password("student123"), user_type |-> "student" ],
       [ user_id |-> "teacher_001", username |-> "TEACH001",
         password |-> _hash_password("teacher123"), user_type |-> "teacher" ] >>

\* The first user of that name and type, or None
_find_user(users, username, user_type) ==
    IF \E k \in 1..Len(users) :
           users[k].username = username /\ users[k].user_type = user_type
    THEN users[CHOOSE k \in 1..Len(users) :
                   /\ users[k].username = username /\ users[k].user_type = user_type
                   /\ \A j \in 1..(k - 1) :
                          ~(users[j].username = username /\ users[j].user_type = user_type)]
    ELSE None

LoginOutput(success, user_type, user_id, username, message) ==
    [ success |-> success, user_type |-> user_type, user_id |-> user_id,
      username |-> username, message |-> message ]

authenticate_user(users, login_input) ==
    LET user == _find_user(users, login_input.username, login_input.user_type)
    IN  IF user = None
        THEN LoginOutput(FALSE, login_input.user_type, "", login_input.username,
                         "Invalid username or password")
        ELSE IF user.password # _hash_password(login_input.password)
        THEN LoginOutput(FALSE, login_input.user_type, user.user_id, user.username,
                         "Invalid password")
        ELSE LoginOutput(TRUE, user.user_type, user.user_id, user.username,
                         "Login successful")

\* The response login_endpoint builds from what authenticate_user returned
LoginResponse(service) ==
    [ status |-> 200, success |-> TRUE, user_type |-> service.user_type,
      user_id |-> service.user_id, username |-> service.username,
      message |-> "Login successful", token |-> "token-" \o service.username ]

\* The id register_user gives the next user of the type
NewUserId(users, user_type) ==
    user_type \o "_00" \o ToString(Len(users) + 1)

AuthRequests ==
    { [op |-> op, username |-> u, password |-> p, user_type |-> t] :
          op \in {"login", "register"},
          u \in {"RA2111003010001", "TEACH001", "RA2111003010002"},
          p \in {"student123", "teacher123", "letmein"},
          t \in {"student", "teacher"} }

\* The users file as the service creates it, or emptied since
InitLogin ==
    /\ call \in AuthRequests
    /\ analysis \in {[kind |-> "users", users |-> us] : us \in {DefaultUsers, <<>>}}
    /\ result = NoResult
    /\ StoreAbsent

LoginEndpoint ==
    /\ call.op = "login"
    /\ result = NoResult
    /\ result' = [ kind |-> "login",
                   service |-> authenticate_user(analysis.users, call),
                   response |-> LoginResponse(authenticate_user(analysis.users, call)) ]
    /\ UNCHANGED <<call, analysis, store>>

RegisterEndpoint ==
    /\ call.op = "register"
    /\ result = NoResult
    /\ IF _find_user(analysis.users, call.username, call.user_type) # None
       THEN /\ result' = [ kind |-> "register", success |-> FALSE,
                           message |-> "User already exists" ]
            /\ UNCHANGED analysis
       ELSE /\ result' = [ kind |-> "register", success |-> TRUE,
                           message |-> "User registered successfully",
                           user_id |-> NewUserId(analysis.users, call.user_type) ]
            /\ analysis' =
                   [ analysis EXCEPT
                       !.users = Append(@, [ user_id |-> NewUserId(analysis.users, call.user_type),
                                             username |-> call.username,
                                             password |-> _hash_password(call.password),
                                             user_type |-> call.user_type ]) ]
    /\ UNCHANGED <<call, store>>

\* The next request arrives
AuthRequest ==
    /\ call.op \in {"login", "register"}
    /\ result # NoResult
    /\ \E request \in AuthRequests :
           /\ request.op = "register" => Len(analysis.users) < MaxUsers
           /\ call' = request
    /\ result' = NoResult
    /\ UNCHANGED <<analysis, store>>

NextLogin == LoginEndpoint \/ RegisterEndpoint \/ AuthRequest

SpecLogin == InitLogin /\ [][NextLogin]_vars

(***************************************************************************)
(* SpecEndpoints: the get-history and delete-item endpoints over the       *)
(* history store.  The JSON body of a request has the field or not.        *)
(***************************************************************************)
\* What data.get(field) finds in the body: nothing, or one of the values
Bodies(values) ==
    { [has |-> FALSE, value |-> ""] } \cup { [has |-> TRUE, value |-> v] : v \in values }

\* The HTTPException raised inside the try block is caught by the except
\* clause of the endpoint and raised again with status 500
Rejected(prefix, detail) ==
    [kind |-> "http", status |-> 500, detail |-> prefix \o "400: " \o detail]

GetCommunicationHistoryEndpoint ==
    /\ call.op # "evaluate_text_only"
    /\ \E body \in Bodies(Students \cup {""}), fault \in BOOLEAN :
           /\ call' = [op |-> "get_communication_history_endpoint", body |-> body, fault |-> fault]
           /\ result' =
                  IF ~body.has \/ body.value = ""
                  THEN Rejected("Get communication history error: ",
                                "Student register number is required")
                  ELSE [ kind |-> "http", status |-> 200,
                         body |-> get_communication_history(history_file, body.value, fault) ]
    /\ UNCHANGED <<analysis, store>>

DeleteCommunicationHistoryEndpoint ==
    /\ call.op # "evaluate_text_only"
    /\ \E body \in Bodies(ItemIds \cup {""}), fault \in BOOLEAN :
           \E deleted \in {delete_communication_history_item(history_file, body.value, fault)} :
               /\ call' = [ op |-> "delete_communication_history_endpoint", body |-> body,
                            fault |-> fault ]
               /\ IF ~body.has \/ body.value = ""
                  THEN /\ result' = Rejected("Delete communication history error: ",
                                             "Item ID is required")
                       /\ UNCHANGED store
                  ELSE /\ result' = [kind |-> "http", status |-> 200, body |-> deleted.output]
                       /\ history_file' = deleted.file
                       /\ saved_entries' =
                              IF deleted.output.success
                              THEN Without(saved_entries, body.value)
                              ELSE saved_entries
    /\ UNCHANGED analysis

NextEndpoints ==
    \/ SaveCommunicationHistory
    \/ GetCommunicationHistoryEndpoint
    \/ DeleteCommunicationHistoryEndpoint

SpecEndpoints == InitHistory /\ [][NextEndpoints]_vars

(***************************************************************************)
(* SpecNotifications: the operations of NotificationService on             *)
(* data/notifications.json, one after the other.  The title, message and   *)
(* type of a notification are stored as given and left out.                *)
(***************************************************************************)
MaxNotifications == 2

NotificationUsers == {"student_001", "student_002"}

\* datetime.now().isoformat() at the calls
NotificationTimes == {"2024-03-10T07:30:00.123456", "2024-03-10T07:30:01.000250"}

\* The k-th id uuid.uuid4() hands out
NotificationId(k) == "7c9e6679-7425-40de-944b-e07fc1f9000" \o ToString(k)

create_notification(notifications, id, user_id, now) ==
    Append(notifications,
           [ id |-> id, user_id |-> user_id, status |-> "unread",
             created_at |-> now, read_at |-> None ])

\* user_notifications.sort(key=created_at, reverse=True)
ByCreatedAt(user_notifications) ==
    LET sorted == SortNewestFirst([k \in DOMAIN user_notifications |->
                                      [ timestamp |-> user_notifications[k].created_at,
                                        item |-> user_notifications[k] ]])
    IN  [k \in DOMAIN sorted |-> sorted[k].item]

get_user_notifications(notifications, user_id, unread_only) ==
    LET mine(n) == n.user_id = user_id /\ (unread_only => n.status = "unread")
        unread(n) == n.status = "unread"
        user_notifications == ByCreatedAt(SelectSeq(notifications, mine))
    IN  [ kind |-> "list", notifications |-> user_notifications,
          unread_count |-> Len(SelectSeq(user_notifications, unread)),
          total_count |-> Len(user_notifications) ]

MarkedRead(notification, now) ==
    [notification EXCEPT !.status = "read", !.read_at = [kind |-> "time", at |-> now]]

\* The notifications and the returned value when the status is not looked at
MarkWhateverStatus(notifications, notification_id, user_id, now) ==
    LET found == {k \in 1..Len(notifications) :
                      /\ notifications[k].id = notification_id
                      /\ notifications[k].user_id = user_id}
    IN  [ notifications |->
              [k \in DOMAIN notifications |->
                  IF k \in found THEN MarkedRead(notifications[k], now) ELSE notifications[k]],
          value |-> found # {} ]

\* The notifications as saved, or as they were, and the returned value
mark_notification_as_read(notifications, notification_id, user_id, now) ==
    LET found == {k \in 1..Len(notifications) :
                      /\ notifications[k].id = notification_id
                      /\ notifications[k].user_id = user_id
                      /\ notifications[k].status = "unread"}
    IN  IF found = {} THEN [notifications |-> notifications, value |-> FALSE]
        ELSE [ notifications |->
                   [k \in DOMAIN notifications |->
                       IF k = SetMin(found) THEN MarkedRead(notifications[k], now)
                       ELSE notifications[k]],
               value |-> TRUE ]

mark_all_notifications_as_read(notifications, user_id, now) ==
    LET mine == {k \in 1..Len(notifications) :
                     notifications[k].user_id = user_id /\ notifications[k].status = "unread"}
    IN  [ notifications |->
              [k \in DOMAIN notifications |->
                  IF k \in mine THEN MarkedRead(notifications[k], now) ELSE notifications[k]],
          value |-> Cardinality(mine) ]

\* The notifications and the returned value when only the id is compared
DeleteWhoeverOwns(notifications, notification_id, user_id) ==
    LET other(n) == n.id # notification_id
    IN  [ notifications |-> SelectSeq(notifications, other),
          value |-> Len(SelectSeq(notifications, other)) < Len(notifications) ]

delete_notification(notifications, notification_id, user_id) ==
    LET kept(n) == ~(n.id = notification_id /\ n.user_id = user_id)
    IN  [ notifications |-> SelectSeq(notifications, kept),
          value |-> Len(SelectSeq(notifications, kept)) < Len(notifications) ]

\* The file as the service creates it; issued counts the ids handed out
InitNotifications ==
    /\ call = [op |-> "none"]
    /\ analysis = [kind |-> "notifications", notifications |-> <<>>, issued |-> 0]
    /\ result = NoResult
    /\ StoreAbsent

CreateNotification ==
    /\ analysis.kind = "notifications"
    /\ analysis.issued < MaxNotifications
    /\ \E user_id \in NotificationUsers, now \in NotificationTimes :
           \E id \in {NotificationId(analysis.issued + 1)} :
               /\ call' = [op |-> "create_notification", user_id |-> user_id]
               /\ analysis' =
                      [ analysis EXCEPT
                          !.issued = @ + 1,
                          !.notifications = create_notification(@, id, user_id, now) ]
               /\ result' = [ kind |-> "created", id |-> id, user_id |-> user_id,
                              status |-> "unread", created_at |-> now, read_at |-> None ]
    /\ UNCHANGED store

GetUserNotifications ==
    /\ analysis.kind = "notifications"
    /\ \E user_id \in NotificationUsers, unread_only \in BOOLEAN :
           /\ call' = [ op |-> "get_user_notifications", user_id |-> user_id,
                        unread_only |-> unread_only ]
           /\ result' = get_user_notifications(analysis.notifications, user_id, unread_only)
    /\ UNCHANGED <<analysis, store>>

MarkNotificationAsRead ==
    /\ analysis.kind = "notifications"
    /\ \E k \in 1..MaxNotifications, user_id \in NotificationUsers, now \in NotificationTimes :
           \E marked \in {mark_notification_as_read(
                              analysis.notifications, NotificationId(k), user_id, now)} :
               /\ call' = [ op |-> "mark_notification_as_read",
                            notification_id |-> NotificationId(k), user_id |-> user_id ]
               /\ analysis' = [analysis EXCEPT !.notifications = marked.notifications]
               /\ result' = [kind |-> "marked", value |-> marked.value]
    /\ UNCHANGED store

MarkAllNotificationsAsRead ==
    /\ analysis.kind = "notifications"
    /\ \E user_id \in NotificationUsers, now \in NotificationTimes :
           \E marked \in {mark_all_notifications_as_read(analysis.notifications, user_id, now)} :
               /\ call' = [op |-> "mark_all_notifications_as_read", user_id |-> user_id]
               /\ analysis' = [analysis EXCEPT !.notifications = marked.notifications]
               /\ result' = [kind |-> "marked_all", value |-> marked.value]
    /\ UNCHANGED store

DeleteNotification ==
    /\ analysis.kind = "notifications"
    /\ \E k \in 1..MaxNotifications, user_id \in NotificationUsers :
           \E deleted \in {delete_notification(
                               analysis.notifications, NotificationId(k), user_id)} :
               /\ call' = [ op |-> "delete_notification",
                            notification_id |-> NotificationId(k), user_id |-> user_id ]
               /\ analysis' = [analysis EXCEPT !.notifications = deleted.notifications]
               /\ result' = [kind |-> "deleted_notification", value |-> deleted.value]
    /\ UNCHANGED store

NextNotifications ==
    \/ CreateNotification
    \/ GetUserNotifications
    \/ MarkNotificationAsRead
    \/ MarkAllNotificationsAsRead
    \/ DeleteNotification

SpecNotifications == InitNotifications /\ [][NextNotifications]_vars

(***************************************************************************)
(* Claims                                                                  *)
(***************************************************************************)
OutputFields ==
    {"kind", "transcription", "clarity", "confidence", "articulation", "feedback",
     "suggestions", "analysis"}

Returned == result.kind = "returned"

\* The transcript of a finished service call: the one handed to the analyzer,
\* or the empty text that evaluate_text_only answers itself
Transcript == IF analysis = NoAnalysis THEN "" ELSE analysis.transcription

\* The call reached the analyzer and the analyzer raised
ExceptionOccurred == analysis.kind = "raised"

Scores(r) == {r.clarity, r.confidence, r.articulation}

\* C1: every call of evaluate_text_only and evaluate_transcription returns a
\* complete result record and never raises; when an exception occurred during
\* feature extraction or scoring, the record has clarity = confidence =
\* articulation = 50.
TheoremC1 ==
    result # NoResult =>
        /\ Returned
        /\ DOMAIN result = OutputFields
        /\ Scores(result) \subseteq 0..100
        /\ ExceptionOccurred => Scores(result) = {50}

WitnessC1 ==
    /\ Returned
    /\ call.op = "evaluate_text_only"
    /\ call.transcription = ScenarioText
    /\ call.fault
    /\ Scores(result) = {50}

\* C2: for every transcript of at least 10 trimmed characters and every outcome
\* of the random source, each of the three scores the analyzer returns after
\* the variation is an integer of 40..100.
TheoremC2 ==
    (Returned /\ ~call.fault /\ Len(Strip(Transcript)) >= 10) =>
        Scores(result) \subseteq 40..100

WitnessC2 ==
    /\ Returned
    /\ analysis.kind = "features"
    /\ analysis.confidence_score = 30
    /\ result.confidence = 40
    /\ result.articulation = 100

\* C3: the scores of the three calculators, before the variation, satisfy
\* 0 <= clarity <= 100, 0 <= articulation <= 100 and 30 <= confidence <= 100,
\* also for clarity, whose calculator has an upper clamp only.
TheoremC3 ==
    /\ analysis.kind = "features" =>
           /\ analysis.clarity_score \in 0..100
           /\ analysis.articulation_score \in 0..100
           /\ analysis.confidence_score \in 30..100
    /\ result.kind = "rescored" =>
           /\ {result.clarity_low, result.clarity_high} \subseteq 0..100
           /\ {result.confidence_low, result.confidence_high} \subseteq 30..100

\* The filler penalty of clarity at its cap on a text of low speech quality:
\* the lowest clarity the calculator gives, with no lower clamp in the code
WitnessC3 ==
    /\ analysis.kind = "features"
    /\ result.kind = "rescored"
    /\ result.high >= 8
    /\ result.clarity_high = 47
    /\ result.clarity_high < result.clarity_low
    /\ result.confidence_high \in 30..100

FromFallback(r, reason) ==
    /\ StartsWith(r.feedback, reason)
    /\ Scores(r) \subseteq 40..100

Sentinels == {TooShortAudioMessage, NotUnderstoodMessage, ProcessingErrorMessage}

\* C5 as claimed: when the transcriber fails or returns a failure sentinel,
\* evaluate_transcription produces its result through the fallback generator
\* and does not score the sentinel text as speech.
OriginalC5 ==
    (Returned /\ ~call.fault /\ call.op = "evaluate_transcription"
        /\ Transcript \in Sentinels) =>
        /\ analysis.kind = "fallback"
        /\ result.analysis = NoDetail
        /\ \E reason \in Reasons : FromFallback(result, reason)

VariationRange(word_count) == Min(15, Max(5, word_count \div 10))

\* C6: for every base score b and word count w >= 0, _add_natural_variation
\* returns min(100, max(40, b + j)) for an integer j with -v <= j <= v, where
\* v = min(15, max(5, w // 10)); the result is in 40..100 and differs from b by
\* at most v whenever b - v >= 40 and b + v <= 100.
TheoremC6 ==
    (call.op = "_add_natural_variation" /\ Returned) =>
        LET b == call.base_score
            v == VariationRange(call.word_count)
        IN  /\ \E j \in -v..v : result.value = Min(100, Max(40, b + j))
            /\ result.value \in 40..100
            /\ (b - v >= 40 /\ b + v <= 100) =>
                   (result.value - b <= v /\ b - result.value <= v)

WitnessC6 ==
    /\ call.op = "_add_natural_variation"
    /\ Returned
    /\ call.word_count >= 150
    /\ call.base_score = 70
    /\ result.value = 85

EvaluationFields ==
    {"clarity", "confidence", "articulation", "feedback", "suggestions", "detailed_analysis"}

\* C7: for every reason and every outcome of the random source,
\* _generate_random_evaluation returns a complete record whose three scores are
\* each a value of 65..85 plus a variation of -10..10, clamped to 40..100, and
\* whose feedback starts with the reason and embeds the three returned scores.
TheoremC7 ==
    (call.op = "_generate_random_evaluation" /\ result # NoResult) =>
        /\ Returned
        /\ DOMAIN result.value = EvaluationFields
        /\ \A score \in Scores(result.value) :
               \E base \in 65..85, variation \in -10..10 :
                   score = Min(100, Max(40, base + variation))
        /\ StartsWith(result.value.feedback, call.reason)
        /\ result.value.feedback =
               call.reason \o ". Your speech shows "
                   \o ToString(result.value.clarity) \o "% clarity, "
                   \o ToString(result.value.confidence) \o "% confidence, and "
                   \o ToString(result.value.articulation) \o "% articulation."

WitnessC7 ==
    /\ call.op = "_generate_random_evaluation"
    /\ Returned
    /\ call.reason = "Audio transcription failed"
    /\ result.value.clarity = 55
    /\ result.value.confidence = 95
    /\ result.value.articulation = 70

NoTerminator(text) == \A i \in 1..Len(text) : ~IsTerminator(Ch(text, i))

\* C8: for a transcript of at least 10 trimmed characters without '.', '!' and
\* '?' and with N whitespace-separated words, sentence_count is 0 and
\* avg_words_per_sentence equals N.
TheoremC8 ==
    (analysis.kind = "features" /\ NoTerminator(call.transcription)) =>
        /\ analysis.sentence_count = 0
        /\ FracEq(analysis.avg_words_per_sentence, Frac(analysis.word_count, 1))

WitnessC8 ==
    /\ analysis.kind = "features"
    /\ NoTerminator(call.transcription)
    /\ analysis.word_count = 12
    /\ analysis.avg_words_per_sentence = Frac(12, 1)

\* C9 as claimed: with every other feature fixed, a higher filler count gives a
\* strictly lower clarity score and a strictly lower confidence score before
\* the variation, except when the score is already at its lower clamp floor.
OriginalC9 ==
    result.kind = "rescored" =>
        /\ result.clarity_high < result.clarity_low \/ result.clarity_low = 0
        /\ result.confidence_high < result.confidence_low \/ result.confidence_low = 30

\* C9, amended: with every other feature fixed, a higher filler count never
\* gives a higher clarity or confidence score before the variation; clarity is
\* strictly lower when the lower count f has 2f < 15 (its penalty is below the
\* cap of 15) and the new clarity is below the upper clamp 100; confidence is
\* strictly lower when 3f < 20 (penalty below the cap of 20), the old
\* confidence is above the floor 30 and the new one below 100.
TheoremC9 ==
    result.kind = "rescored" =>
        /\ result.clarity_high <= result.clarity_low
        /\ result.confidence_high <= result.confidence_low
        /\ (2 * result.low < 15 /\ result.clarity_high < 100) =>
               result.clarity_high < result.clarity_low
        /\ (3 * result.low < 20 /\ result.confidence_low > 30
                /\ result.confidence_high < 100) =>
               result.confidence_high < result.confidence_low

WitnessC9 ==
    /\ result.kind = "rescored"
    /\ result.low = 0
    /\ result.high = 5
    /\ result.clarity_high = result.clarity_low - 10
    /\ result.confidence_high = result.confidence_low - 15

\* C10 as claimed: for the scenario transcript the extractor yields
\* word_count = 16, sentence_count = 2 and filler_word_count = 1, and the
\* confidence score before the variation is above 55.
OriginalC10 ==
    (analysis.kind = "features" /\ call.transcription = ScenarioText) =>
        /\ analysis.word_count = 16
        /\ analysis.sentence_count = 2
        /\ analysis.speech_analysis.filler_word_count = 1
        /\ analysis.confidence_score > 55

\* C10, amended: for the scenario transcript the extractor yields
\* word_count = 17, sentence_count = 2 and filler_word_count = 1 (the single
\* hit "like"), and the confidence score before the variation is above 55.
TheoremC10 ==
    (analysis.kind = "features" /\ call.transcription = ScenarioText) =>
        /\ analysis.word_count = 17
        /\ analysis.sentence_count = 2
        /\ analysis.speech_analysis.filler_word_count = 1
        /\ Count(Lower(call.transcription), "like") = 1
        /\ analysis.confidence_score > 55

WitnessC10 ==
    /\ analysis.kind = "features"
    /\ call.transcription = ScenarioText
    /\ analysis.word_count = 17
    /\ analysis.confidence_score = 64

\* C11 as claimed: with filler_word_count = 5 the pre-jitter clarity is lower by
\* exactly min(15, 5*2) = 10 than with the same features at filler_word_count
\* = 0; the filler count reduces clarity through no other term.
OriginalC11 ==
    (result.kind = "recounted" /\ result.count = 5) =>
        result.clarity_none - result.clarity_some = 10

\* C11, amended: the filler penalty min(15, 5*2) = 10 is subtracted once, and
\* the filler count also lowers the quality rating by 1/8 and with it the
\* quality bonus int(quality_rating * 10) by 1 or 2; so with filler_word_count
\* = 5 clarity is lower by 11 or 12 than at filler_word_count = 0 when the
\* clarity at 0 is below the upper clamp 100, and by at most that otherwise.
TheoremC11 ==
    (result.kind = "recounted" /\ result.count = 5) =>
        LET quality_drop == result.quality_bonus_none - result.quality_bonus_some
            drop == result.clarity_none - result.clarity_some
        IN  /\ quality_drop \in {1, 2}
            /\ drop <= 10 + quality_drop
            /\ result.clarity_none < 100 => drop = 10 + quality_drop

WitnessC11 ==
    /\ result.kind = "recounted"
    /\ result.count = 5
    /\ analysis.speech_analysis.filler_word_count = 5
    /\ analysis.word_count = 32
    /\ result.clarity_none < 100
    /\ result.clarity_none - result.clarity_some \in {11, 12}

\* Whether the fraction x lies in [0, 1]
InUnitInterval(x) == x.d > 0 /\ 0 <= x.n /\ x.n <= x.d

\* C12: for every transcript of at least 10 trimmed characters,
\* vocabulary_diversity, complexity_score, flow_score and the speech quality
\* rating each lie in [0, 1], and word_count, sentence_count,
\* filler_word_count and formal_language_count are each >= 0.
TheoremC12 ==
    (analysis # NoAnalysis /\ Len(Strip(analysis.transcription)) >= 10) =>
        /\ InUnitInterval(analysis.vocabulary_diversity)
        /\ InUnitInterval(analysis.speech_analysis.complexity_score)
        /\ InUnitInterval(analysis.speech_analysis.flow_score)
        /\ InUnitInterval(analysis.speech_analysis.quality_rating)
        /\ analysis.word_count >= 0
        /\ analysis.sentence_count >= 0
        /\ analysis.speech_analysis.filler_word_count >= 0
        /\ analysis.speech_analysis.formal_language_count >= 0

WitnessC12 ==
    /\ analysis # NoAnalysis
    /\ Len(Strip(analysis.transcription)) >= 10
    /\ analysis.vocabulary_diversity.n < analysis.vocabulary_diversity.d
    /\ analysis.speech_analysis.complexity_score.n > 0
    /\ analysis.speech_analysis.flow_score.n \in
           1..(analysis.speech_analysis.flow_score.d - 1)
    /\ analysis.speech_analysis.filler_word_count > 0
    /\ analysis.speech_analysis.formal_language_count > 0

\* The situational notes the feedback may end with: at most one about filler
\* words, then at most one about complexity, then at most one about flow
SituationalNotes(filler_word_count) ==
    { filler \o complexity \o flow :
          filler \in {<<>>, <<FillerNote(filler_word_count)>>},
          complexity \in
              { <<>>,
                <<"You demonstrate good sentence complexity, showing advanced communication skills.">>,
                <<"Your sentences tend to be simple. Try using more complex sentence structures to express sophisticated ideas.">> },
          flow \in
              { <<>>,
                <<"Excellent speech flow and rhythm. Your delivery is smooth and engaging.">>,
                <<"Your speech flow could be improved. Work on connecting ideas more smoothly.">> } }

\* The lowest score of the band a score lies in: bands from 80, from 60, below
ScoreBand(score) == IF score >= 80 THEN 80 ELSE IF score >= 60 THEN 60 ELSE 0

\* The lowest mean of the band the mean of three scores lies in
MeanBand(total) ==
    IF total >= 3 * 85 THEN 85
    ELSE IF total >= 3 * 75 THEN 75
    ELSE IF total >= 3 * 65 THEN 65
    ELSE IF total >= 3 * 55 THEN 55
    ELSE 0

\* C13: for every score triple and feature set, the feedback text is exactly
\* one overall sentence (chosen by mean score >= 85, >= 75, >= 65, >= 55,
\* else), then one clarity, one confidence and one articulation sentence (each
\* chosen by >= 80, >= 60, else), in that order, followed by between zero and
\* three situational notes in the order filler, complexity, flow, all joined
\* by single spaces.
TheoremC13 ==
    result.kind = "feedback" =>
        \E mean \in {MeanBand(call.clarity_score + call.confidence_score
                                  + call.articulation_score)} :
            \E notes \in SituationalNotes(analysis.filler_word_count) :
                result.text =
                    Join(<< OverallSentence(mean, mean, mean),
                            ClaritySentence(ScoreBand(call.clarity_score)),
                            ConfidenceSentence(ScoreBand(call.confidence_score)),
                            ArticulationSentence(ScoreBand(call.articulation_score)) >>
                             \o notes, " ")

WitnessC13 ==
    /\ result.kind = "feedback"
    /\ call.clarity_score = 100
    /\ call.confidence_score = 79
    /\ call.articulation_score = 59
    /\ analysis.filler_word_count = 4
    /\ analysis.complexity_score = Frac(4, 5)
    /\ analysis.flow_score = Frac(2, 5)
    /\ StartsWith(result.text, "Very good communication skills. ")
    /\ Contains(result.text, " You used 4 filler words, which can distract from your message. You demonstrate good ")

\* Whether the lines of a block stand in the suggestions text
HasBlock(text, block) == Contains(text, Join(block, "\n"))

\* C14: for every score triple and feature set, the suggestions text ends
\* with the Daily Practice block; the Clarity, Confidence and Articulation
\* improvement blocks appear exactly when the respective score is below 70;
\* the Advanced Development block appears exactly when all three scores are
\* >= 80, so it never appears together with an improvement block.
TheoremC14 ==
    result.kind = "suggestions" =>
        \E daily \in {Join(DailyPracticeBlock, "\n")} :
            /\ Len(result.text) >= Len(daily)
            /\ SubSeq(result.text, Len(result.text) - Len(daily) + 1, Len(result.text)) = daily
            /\ HasBlock(result.text, ClarityBlock) <=> call.clarity_score < 70
            /\ HasBlock(result.text, ConfidenceBlock) <=> call.confidence_score < 70
            /\ HasBlock(result.text, ArticulationBlock) <=> call.articulation_score < 70
            /\ HasBlock(result.text, AdvancedBlock) <=>
                   (call.clarity_score >= 80 /\ call.confidence_score >= 80
                        /\ call.articulation_score >= 80)
            /\ HasBlock(result.text, AdvancedBlock) =>
                   ~(\/ HasBlock(result.text, ClarityBlock)
                     \/ HasBlock(result.text, ConfidenceBlock)
                     \/ HasBlock(result.text, ArticulationBlock))

WitnessC14 ==
    /\ result.kind = "suggestions"
    /\ call.clarity_score = 69
    /\ call.confidence_score = 70
    /\ call.articulation_score = 80
    /\ HasBlock(result.text, ClarityBlock)
    /\ ~HasBlock(result.text, ConfidenceBlock)
    /\ ~HasBlock(result.text, AdvancedBlock)

\* C15: an evaluation call (evaluate_text_only and the scoring pipeline under
\* it) leaves the communication history store unchanged, for every input; the
\* service object has no fields of its own.
TheoremC15 ==
    [][(call.op = "evaluate_text_only" /\ result = NoResult /\ result' # NoResult)
           => history_file' = history_file]_vars

WitnessC15 ==
    /\ call.op = "evaluate_text_only"
    /\ Len(call.transcription) > 10
    /\ result.kind = "returned"
    /\ analysis.kind = "features"
    /\ history_file.state = "list"
    /\ Len(history_file.entries) = 2

\* C16 as claimed: when save_communication_history succeeds, the history_id it
\* returns is the id of the saved entry, so that deleting by history_id
\* removes the entry just saved.
OriginalC16 ==
    (call.op = "save_communication_history" /\ result.success) =>
        history_file.entries[Len(history_file.entries)].id = result.history_id

\* The position of a timestamp of the common format within its year, in seconds
Instant(timestamp) ==
    LET field(i) == 10 * (Ord(Ch(timestamp, i)) - Ord("0"))
                        + (Ord(Ch(timestamp, i + 1)) - Ord("0"))
    IN  (((field(6) * 31 + field(9)) * 24 + field(12)) * 60 + field(15)) * 60 + field(18)

\* C17: after any sequence of successful saves and deletes,
\* get_communication_history(s) returns exactly the entries saved with
\* student_register_number s and not deleted since, newest timestamp first;
\* and a delete that finds no matching id returns success = false and leaves
\* the stored list unchanged.
TheoremC17 ==
    /\ []((call.op = "get_communication_history" /\ result.success) =>
              \E mine \in {{k \in 1..Len(saved_entries) :
                               saved_entries[k].student_register_number
                                   = call.student_register_number}} :
                  /\ Len(result.history) = Cardinality(mine)
                  /\ {result.history[i] : i \in 1..Len(result.history)}
                         = {saved_entries[k] : k \in mine}
                  /\ \A i, j \in 1..Len(result.history) :
                         i < j => Instant(result.history[i].timestamp)
                                      >= Instant(result.history[j].timestamp))
    /\ [][(/\ call'.op = "delete_communication_history_item"
            /\ ~call'.fault
            /\ \A k \in 1..Len(history_file.entries) :
                   history_file.entries[k].id # call'.item_id)
               => (result'.success = FALSE /\ history_file' = history_file)]_vars

WitnessC17 ==
    /\ call.op = "get_communication_history"
    /\ result.success
    /\ Len(history_file.entries) = 2
    /\ Len(result.history) = 2
    /\ result.history[1] = history_file.entries[2]
    /\ result.history[1].timestamp # result.history[2].timestamp

\* C18: for every transcript, sentence_count (the segment count of splitting
\* on [.!?]+ minus 1) equals the number of maximal runs of '.', '!' or '?' in
\* the transcript and is never negative.
TheoremC18 ==
    analysis # NoAnalysis =>
        /\ analysis.sentence_count =
               Cardinality({i \in 1..Len(analysis.transcription) :
                               /\ Ch(analysis.transcription, i) \in {".", "!", "?"}
                               /\ \/ i = Len(analysis.transcription)
                                  \/ Ch(analysis.transcription, i + 1) \notin {".", "!", "?"}})
        /\ analysis.sentence_count >= 0

WitnessC18 ==
    /\ analysis # NoAnalysis
    /\ Contains(analysis.transcription, "sure... Therefore")
    /\ Contains(analysis.transcription, "week?! Go")
    /\ analysis.sentence_count = 3

\* The lists of indicator terms with their weights and the bonus each yields
IndicatorBonuses ==
    { <<clarity_indicators, 4, result.clarity_bonus>>,
      <<strong_confidence, 6, result.strong_bonus>>,
      <<moderate_confidence, 3, result.moderate_bonus>>,
      <<leadership_words, 5, result.leadership_bonus>>,
      <<uncertainty_words, 3, result.uncertainty_penalty>>,
      <<articulation_words, 4, result.articulation_bonus>> }

\* C19 as claimed: each lexical bonus or penalty is applied per occurrence, an
\* indicator that occurs k times in the lowercased transcript contributes k
\* times its weight.
OriginalC19 ==
    result.kind = "bonuses" =>
        \E text \in {Lower(analysis.transcription)} :
            \A b \in IndicatorBonuses :
                b[3] = b[2] * SumInts([k \in 1..Len(b[1]) |-> Count(text, b[1][k])])

\* C19, amended: each lexical bonus or penalty is applied per indicator that
\* is present: an indicator term that occurs at least once as a substring of
\* the lowercased transcript (also inside a longer word) contributes its
\* weight once, however often it occurs.
TheoremC19 ==
    result.kind = "bonuses" =>
        \E text \in {Lower(analysis.transcription)} :
            \A b \in IndicatorBonuses :
                b[3] = b[2] * Cardinality({k \in 1..Len(b[1]) : Count(text, b[1][k]) >= 1})

WitnessC19 ==
    /\ result.kind = "bonuses"
    /\ Count(Lower(analysis.transcription), "confident") = 2
    /\ Count(Lower(analysis.transcription), "definitely") = 2
    /\ result.strong_bonus = 12
    /\ result.leadership_bonus = 15

\* The fractional values with their factors and the bonus each yields
FractionalBonuses ==
    { <<analysis.speech_analysis.quality_rating, 10, result.quality_bonus>>,
      <<analysis.speech_analysis.complexity_score, 15, result.complexity_bonus>>,
      <<analysis.speech_analysis.flow_score, 10, result.flow_bonus>> }

\* round(x * factor) for the fraction x: to the nearest integer, a half to the
\* even neighbour
Rounded(x, factor) ==
    LET below == (x.n * factor) \div x.d
        twice == 2 * ((x.n * factor) % x.d)
    IN  IF twice > x.d \/ (twice = x.d /\ below % 2 = 1) THEN below + 1 ELSE below

\* C20 as claimed: the fractional bonuses are rounded to the nearest integer:
\* round(speech_quality * 10), round(complexity_score * 15) and
\* round(flow_score * 10).
OriginalC20 ==
    result.kind = "bonuses" =>
        \A b \in FractionalBonuses : b[3] = Rounded(b[1], b[2])

\* C20, amended: the fractional bonuses are cut off by int(), never rounded
\* up: each bonus is an integer b with value - 1 <= b <= value, for value =
\* speech_quality * 10, complexity_score * 15 and flow_score * 10.
TheoremC20 ==
    result.kind = "bonuses" =>
        \A b \in FractionalBonuses :
            /\ b[3] * b[1].d <= b[1].n * b[2]
            /\ b[1].n * b[2] <= (b[3] + 1) * b[1].d

WitnessC20 ==
    /\ result.kind = "bonuses"
    /\ 2 * ((analysis.speech_analysis.quality_rating.n * 10)
                % analysis.speech_analysis.quality_rating.d)
           > analysis.speech_analysis.quality_rating.d
    /\ result.quality_bonus < Rounded(analysis.speech_analysis.quality_rating, 10)
    /\ result.complexity_bonus > 0
    /\ result.flow_bonus > 0

\* C21: the pre-jitter clarity equals min(100, 60 + L + W + I - min(15, 2 *
\* filler_word_count) + Q): L is 12 for an average sentence length in [8, 18],
\* otherwise 6 for one in [5, 25], otherwise 0; W is 10 from 25 words, 5 from
\* 15 words, otherwise 0; I is the clarity-indicator bonus and Q the
\* speech-quality bonus.
TheoremC21 ==
    result.kind = "bonuses" =>
        LET avg == analysis.avg_words_per_sentence
            L == IF 8 * avg.d <= avg.n /\ avg.n <= 18 * avg.d THEN 12
                 ELSE IF 5 * avg.d <= avg.n /\ avg.n <= 25 * avg.d THEN 6 ELSE 0
            W == IF analysis.word_count >= 25 THEN 10
                 ELSE IF analysis.word_count >= 15 THEN 5 ELSE 0
            total == 60 + L + W + result.clarity_bonus
                        - Min(15, 2 * analysis.speech_analysis.filler_word_count)
                        + result.quality_bonus
        IN  analysis.clarity_score = IF total > 100 THEN 100 ELSE total

WitnessC21 ==
    /\ result.kind = "bonuses"
    /\ 8 * analysis.avg_words_per_sentence.d <= analysis.avg_words_per_sentence.n
    /\ analysis.avg_words_per_sentence.n <= 18 * analysis.avg_words_per_sentence.d
    /\ analysis.word_count \in 15..24
    /\ result.clarity_bonus > 0
    /\ analysis.speech_analysis.filler_word_count > 0
    /\ result.quality_bonus > 0
    /\ analysis.clarity_score < 100

\* C22: in the articulation calculator the word-count bonus is exactly one of
\* 12, 8, 4 or 0 (word_count >= 35, >= 25, >= 15, otherwise), the diversity
\* bonus exactly one of 15, 10, 5 or 0 (vocabulary_diversity > 0.8, > 0.6,
\* > 0.4, otherwise), the penalty of 10 applies exactly when flow_score < 0.3,
\* 5 is added when the transcript has '?' and 3 when it has '!', and the
\* result is clamped to [35, 100].
TheoremC22 ==
    result.kind = "bonuses" =>
        LET word_count == analysis.word_count
            diversity == analysis.vocabulary_diversity
            flow == analysis.speech_analysis.flow_score
            count_bonus == CHOOSE b \in {12, 8, 4, 0} :
                               /\ b = 12 <=> word_count >= 35
                               /\ b = 8 <=> word_count \in 25..34
                               /\ b = 4 <=> word_count \in 15..24
            diversity_bonus == CHOOSE b \in {15, 10, 5, 0} :
                                   /\ b = 15 <=> 5 * diversity.n > 4 * diversity.d
                                   /\ b = 10 <=> (5 * diversity.n > 3 * diversity.d
                                                    /\ 5 * diversity.n <= 4 * diversity.d)
                                   /\ b = 5 <=> (5 * diversity.n > 2 * diversity.d
                                                   /\ 5 * diversity.n <= 3 * diversity.d)
            total == 65 + count_bonus + diversity_bonus
                        - (IF 10 * flow.n < 3 * flow.d THEN 10 ELSE 0)
                        + result.articulation_bonus + result.complexity_bonus
                        + result.flow_bonus
                        + (IF Contains(analysis.transcription, "?") THEN 5 ELSE 0)
                        + (IF Contains(analysis.transcription, "!") THEN 3 ELSE 0)
        IN  /\ analysis.articulation_score \in 35..100
            /\ total \in 35..100 => analysis.articulation_score = total
            /\ total < 35 => analysis.articulation_score = 35
            /\ total > 100 => analysis.articulation_score = 100

WitnessC22 ==
    /\ result.kind = "bonuses"
    /\ analysis.word_count >= 35
    /\ 5 * analysis.vocabulary_diversity.n <= 2 * analysis.vocabulary_diversity.d
    /\ Contains(analysis.transcription, "?")
    /\ Contains(analysis.transcription, "!")
    /\ result.flow_bonus = 5
    /\ analysis.articulation_score = 90

\* The retry loop of _try_recognition_with_retries is running
Recognizing == analysis.kind = "processing" /\ analysis.at = "recognition"

\* The last recognition of the retry loop failed: no transcript, an invalid
\* one, or an unexpected error
AttemptFailed ==
    \/ analysis.outcome.kind \in {"unknown", "error"}
    \/ analysis.outcome.kind = "heard" /\ ~_is_valid_transcription(analysis.outcome.text)

\* C23: _try_recognition_with_retries terminates after at most 3 primary
\* recognition attempts: every failed attempt (unrecognised audio, invalid
\* transcription, unexpected error) increments the attempt counter; a
\* RequestError at any attempt returns the "Speech recognition service
\* unavailable" message at once with no further attempt; a valid transcription
\* is returned at once; alternative recognition is invoked only after the
\* third failure, and once; and the loop is always left.
TheoremC23 ==
    /\ [](analysis.kind = "processing" =>
            /\ analysis.primary <= 3
            /\ analysis.alternative <= 1
            /\ analysis.alternative = 1 => (analysis.attempts = 3 /\ analysis.primary = 3)
            /\ Recognizing => analysis.attempts = analysis.primary
            /\ (Recognizing /\ analysis.primary > 0) => AttemptFailed
            /\ (analysis.at = "returned" /\ analysis.primary > 0 /\ analysis.alternative = 0) =>
                   IF analysis.outcome.kind = "request_error"
                   THEN /\ analysis.value.kind = "text"
                        /\ StartsWith(analysis.value.text,
                                      "Speech recognition service unavailable")
                   ELSE /\ analysis.outcome.kind = "heard"
                        /\ _is_valid_transcription(analysis.outcome.text)
                        /\ analysis.value = [kind |-> "text", text |-> analysis.outcome.text])
    /\ [][Recognizing =>
            \/ /\ analysis'.at = "recognition"
               /\ analysis'.primary = analysis.primary + 1
               /\ analysis'.attempts = analysis.attempts + 1
            \/ /\ analysis'.at = "returned"
               /\ analysis'.primary = analysis.primary + 1
               /\ analysis'.attempts = analysis.attempts
               /\ analysis'.alternative = 0
            \/ /\ analysis'.at = "returned"
               /\ analysis.attempts = 3
               /\ analysis'.primary = 3
               /\ analysis'.alternative = 1]_vars
    /\ (Recognizing ~> ~Recognizing)

WitnessC23 ==
    /\ analysis.kind = "processing"
    /\ analysis.at = "returned"
    /\ analysis.primary = 3
    /\ analysis.attempts = 3
    /\ analysis.alternative = 1
    /\ analysis.outcome.kind = "error"
    /\ analysis.value.kind = "none"

\* The transcripts the recognizer can yield
Transcripts == {o.text : o \in {x \in RecognitionOutcomes : x.kind = "heard"}}

\* C24 as claimed: _process_audio_with_multiple_methods tries direct, enhanced
\* and simple-fallback processing in that order and never returns None; its
\* result is either a recognizer transcript that passed
\* _is_valid_transcription, from the first method that produced one, or, when
\* all three methods failed, the final "I couldn't understand what you said"
\* message; no failure message of an intermediate method is returned.
OriginalC24 ==
    analysis.kind = "processing" =>
        /\ analysis.tried = SubSeq(<<"direct", "enhanced", "simple">>, 1, Len(analysis.tried))
        /\ analysis.at = "done" =>
               /\ result.kind = "text"
               /\ \/ /\ result.text \in Transcripts
                     /\ _is_valid_transcription(result.text)
                     /\ result = analysis.value
                  \/ /\ result.text = NotUnderstoodMessage
                     /\ Len(analysis.tried) = 3

\* C25 as claimed: two evaluate_transcription requests processed concurrently
\* do not interfere: under every interleaving each request is transcribed from
\* its own audio bytes, although both use the same fixed temporary file names
\* in the shared working directory, and neither request's cleanup removes a
\* file the other is still using.
OriginalC25 ==
    analysis.kind = "threads" =>
        \A r \in Requests :
            /\ analysis.heard[r] \in {Absent, r}
            /\ ~analysis.lost[r]

\* C26 as claimed: the /auth/login endpoint answers success = true only when
\* authenticate_user reported success, that is when a user with the given
\* username and user type exists and the password matches; for an unknown user
\* or a wrong password the response has success = false.
OriginalC26 ==
    result.kind = "login" =>
        /\ result.response.success = result.service.success
        /\ result.response.success <=>
               \E k \in 1..Len(analysis.users) :
                   /\ analysis.users[k].username = call.username
                   /\ analysis.users[k].user_type = call.user_type
                   /\ analysis.users[k].password = _hash_password(call.password)

\* C27 as claimed: a get-history request without student_register_number and
\* a delete-item request without id are answered with HTTP status 400
\* (required field missing), not with status 500, and the history store is
\* not touched.
OriginalC27 ==
    [][ ( /\ call'.op \in { "get_communication_history_endpoint",
                             "delete_communication_history_endpoint" }
          /\ ~call'.body.has )
            => (result'.status = 400 /\ UNCHANGED store) ]_vars

\* C28 as claimed: the legacy wrappers _generate_feedback and
\* _generate_suggestions return, for every score triple, a feedback or
\* suggestions text without raising: the band sentences and the score-based
\* blocks that the enhanced composers select for those scores.
OriginalC28 ==
    /\ result.kind = "legacy_feedback" =>
           /\ result.outcome.kind = "returned"
           /\ StartsWith(result.outcome.text,
                  Join(<< OverallSentence(call.clarity_score, call.confidence_score,
                                          call.articulation_score),
                          ClaritySentence(call.clarity_score),
                          ConfidenceSentence(call.confidence_score),
                          ArticulationSentence(call.articulation_score) >>, " "))
    /\ result.kind = "legacy_suggestions" =>
           /\ result.outcome.kind = "returned"
           /\ HasBlock(result.outcome.text, ClarityBlock) <=> call.clarity_score < 70
           /\ HasBlock(result.outcome.text, ConfidenceBlock) <=> call.confidence_score < 70
           /\ HasBlock(result.outcome.text, ArticulationBlock) <=> call.articulation_score < 70
           /\ HasBlock(result.outcome.text, AdvancedBlock) <=>
                  (call.clarity_score >= 80 /\ call.confidence_score >= 80
                       /\ call.articulation_score >= 80)

\* The stored notification of that id, in a set: empty when there is none
Stored(notifications, id) ==
    {notifications[k] : k \in {j \in 1..Len(notifications) : notifications[j].id = id}}

\* C29: after any sequence of notification operations, every stored
\* notification was created with status 'unread' and read_at = null, its
\* status only ever changes from 'unread' to 'read' and never back, read_at is
\* non-null exactly when the status is 'read', and mark_notification_as_read
\* returns true only for the call that performs that change: a repeated call
\* returns false and leaves the store unchanged.
TheoremC29 ==
    /\ [](analysis.kind = "notifications" =>
            \A k \in 1..Len(analysis.notifications) :
                /\ analysis.notifications[k].status \in {"unread", "read"}
                /\ analysis.notifications[k].read_at # None
                       <=> analysis.notifications[k].status = "read")
    /\ [][analysis.kind = "notifications" =>
            /\ \A k \in 1..Len(analysis'.notifications) :
                   \E after \in {analysis'.notifications[k]} :
                       IF Stored(analysis.notifications, after.id) = {}
                       THEN after.status = "unread" /\ after.read_at = None
                       ELSE \A before \in Stored(analysis.notifications, after.id) :
                                \/ after = before
                                \/ /\ before.status = "unread"
                                   /\ after.status = "read"
            /\ call'.op = "mark_notification_as_read" =>
                   IF result'.value
                   THEN /\ \E before \in Stored(analysis.notifications, call'.notification_id) :
                               before.status = "unread" /\ before.user_id = call'.user_id
                        /\ \A after \in Stored(analysis'.notifications, call'.notification_id) :
                               after.status = "read"
                        /\ \A k \in 1..Len(analysis.notifications) :
                               analysis.notifications[k].id # call'.notification_id
                                   => analysis'.notifications[k] = analysis.notifications[k]
                   ELSE analysis'.notifications = analysis.notifications]_vars

WitnessC29 ==
    /\ analysis.kind = "notifications"
    /\ call.op = "mark_notification_as_read"
    /\ result.kind = "marked"
    /\ ~result.value
    /\ \E n \in Stored(analysis.notifications, call.notification_id) :
           /\ n.user_id = call.user_id
           /\ n.status = "read"
           /\ n.read_at # None

\* The notifications of the users other than user_id, in their order
OfOthers(notifications, user_id) ==
    LET other(n) == n.user_id # user_id
    IN  SelectSeq(notifications, other)

\* C30: mark_notification_as_read, mark_all_notifications_as_read and
\* delete_notification called with user_id u change only notifications whose
\* user_id is u: called with the id of another user's notification they
\* return false (or count 0) and leave every stored notification unchanged,
\* and after mark_all_notifications_as_read(u) the unread_count reported for u
\* is 0 while other users' unread counts are unchanged.
TheoremC30 ==
    [][call'.op \in { "mark_notification_as_read", "mark_all_notifications_as_read",
                      "delete_notification" } =>
          /\ OfOthers(analysis'.notifications, call'.user_id)
                 = OfOthers(analysis.notifications, call'.user_id)
          /\ call'.op # "mark_all_notifications_as_read" =>
                 \A n \in Stored(analysis.notifications, call'.notification_id) :
                     n.user_id # call'.user_id =>
                         /\ ~result'.value
                         /\ analysis'.notifications = analysis.notifications
          /\ call'.op = "mark_all_notifications_as_read" =>
                 /\ get_user_notifications(analysis'.notifications, call'.user_id, FALSE)
                        .unread_count = 0
                 /\ \A v \in NotificationUsers \ {call'.user_id} :
                        get_user_notifications(analysis'.notifications, v, FALSE).unread_count
                            = get_user_notifications(analysis.notifications, v, FALSE)
                                  .unread_count
                 /\ OfOthers(analysis.notifications, call'.user_id) = analysis.notifications
                        => (result'.value = 0
                              /\ analysis'.notifications = analysis.notifications)]_vars

WitnessC30 ==
    /\ analysis.kind = "notifications"
    /\ call.op = "delete_notification"
    /\ result.kind = "deleted_notification"
    /\ ~result.value
    /\ \E n \in Stored(analysis.notifications, call.notification_id) :
           n.user_id # call.user_id /\ n.status = "unread"
    /\ \E k \in 1..Len(analysis.notifications) :
           analysis.notifications[k].user_id = call.user_id

====
